---- MODULE Spec2Model ----
\* The filename normaliser of fixfiles.py (get_new_filename) as a function on
\* strings, and the two-pass use a repeated directory run makes of it.
\* A string is a sequence of one-character strings.
EXTENDS Integers, Sequences, FiniteSets, TLC

\* get_new_filename applied by process_directory, and applied again
VARIABLES filename, new_filename, second_pass, pc

\* extract_episode_info and format_show_title (updatetitle.py)
VARIABLES ep_file, ep_info, fmt_args, show_title, ep_pc
VARIABLES argv, execute, root_exists, fs, fs0, listing, idx, log, batch_pc
VARIABLES scan_dir, probe_ok, max_workers, now, video_files, submitted, queued, running,
          finished, metadata_list, first_result, scan_pc

normVars == <<filename, new_filename, second_pass, pc>>

episodeVars == <<ep_file, ep_info, fmt_args, show_title, ep_pc>>

batchVars == <<argv, execute, root_exists, fs, fs0, listing, idx, log, batch_pc>>
scanVars == <<scan_dir, probe_ok, max_workers, now, video_files, submitted, queued, running,
              finished, metadata_list, first_result, scan_pc>>

\* extract_title (updatetitle.py), applied and applied again
VARIABLES directory_name, clean_title, title_again, title_pc

titleVars == <<directory_name, clean_title, title_again, title_pc>>

earlierVars == <<normVars, episodeVars, batchVars, scanVars>>

\* update_video_metadata (updatetitle.py)
VARIABLES video_path, new_title, original, temp_file, returncode, update_result, update_pc

updateVars == <<video_path, new_title, original, temp_file, returncode, update_result,
                update_pc>>

\* Route53DDNS.run (route53ddns.py)
VARIABLES interface_ip, new_ip, current_ip, last_upserted, update_outcome, attempts, cycles,
          ddns_pc

ddnsVars == <<interface_ip, new_ip, current_ip, last_upserted, update_outcome, attempts,
              cycles, ddns_pc>>

\* rename_files (video_rename/app.py)
VARIABLES rn_request, rn_files, rn_before, csv_readable, rn_idx, rn_results, rn_response,
          rn_pc

renameVars == <<rn_request, rn_files, rn_before, csv_readable, rn_idx, rn_results,
                rn_response, rn_pc>>

\* organize_mp3s (mp3_organizer.py)
VARIABLES mp3_files, dry_run, plan_idx, planned_moves, potential_conflicts, exec_idx,
          created, moved, org_pc

organizeVars == <<mp3_files, dry_run, plan_idx, planned_moves, potential_conflicts,
                  exec_idx, created, moved, org_pc>>

laterVars == <<titleVars, updateVars, ddnsVars, renameVars, organizeVars>>

vars == <<earlierVars, laterVars>>

Unset == "unset"

\* the parts of the state a run of another script leaves alone
NormalizerIdle ==
  /\ filename = <<>>
  /\ new_filename = Unset
  /\ second_pass = Unset
  /\ pc = "idle"

EpisodeIdle ==
  /\ ep_file = Unset
  /\ ep_info = Unset
  /\ fmt_args = Unset
  /\ show_title = Unset
  /\ ep_pc = "idle"

BatchIdle ==
  /\ argv = <<>> /\ execute = FALSE /\ root_exists = FALSE
  /\ fs = <<>> /\ fs0 = <<>> /\ listing = <<>> /\ idx = 0 /\ log = <<>>
  /\ batch_pc = "idle"

ScanIdle ==
  /\ scan_dir = <<>> /\ probe_ok = {} /\ max_workers = 0 /\ now = 0
  /\ video_files = <<>> /\ submitted = 0 /\ queued = <<>> /\ running = {}
  /\ finished = {} /\ metadata_list = <<>> /\ first_result = Unset
  /\ scan_pc = "idle"

EarlierIdle == NormalizerIdle /\ EpisodeIdle /\ BatchIdle /\ ScanIdle

\* every later script but the active one is at rest
LaterIdle(active) ==
  /\ IF active = "title" THEN TRUE
     ELSE directory_name = Unset /\ clean_title = Unset /\ title_again = Unset
          /\ title_pc = "idle"
  /\ IF active = "update" THEN TRUE
     ELSE video_path = Unset /\ new_title = Unset /\ original = Unset
          /\ temp_file = Unset /\ returncode = Unset /\ update_result = Unset
          /\ update_pc = "idle"
  /\ IF active = "ddns" THEN TRUE
     ELSE interface_ip = Unset /\ new_ip = Unset /\ current_ip = Unset
          /\ last_upserted = Unset /\ update_outcome = Unset /\ attempts = 0
          /\ cycles = 0 /\ ddns_pc = "idle"
  /\ IF active = "rename" THEN TRUE
     ELSE rn_request = <<>> /\ rn_files = Unset /\ rn_before = Unset
          /\ csv_readable = Unset /\ rn_idx = 0 /\ rn_results = <<>>
          /\ rn_response = Unset /\ rn_pc = "idle"
  /\ IF active = "organize" THEN TRUE
     ELSE mp3_files = <<>> /\ dry_run = Unset /\ plan_idx = 0
          /\ planned_moves = <<>> /\ potential_conflicts = <<>> /\ exec_idx = 0
          /\ created = {} /\ moved = <<>> /\ org_pc = "idle"


-----------------------------------------------------------------------------
\* Characters and the classes Python's str methods and the re module use.

Digits == {"0", "1", "2", "3", "4", "5", "6", "7", "8", "9"}

LowerChars == <<"a", "b", "c", "d", "e", "f", "g", "h", "i", "j", "k", "l", "m", "n", "o", "p", "q", "r", "s", "t", "u", "v", "w", "x", "y", "z">>

UpperChars == <<"A", "B", "C", "D", "E", "F", "G", "H", "I", "J", "K", "L", "M", "N", "O", "P", "Q", "R", "S", "T", "U", "V", "W", "X", "Y", "Z">>

AsciiLetters == {LowerChars[i] : i \in 1..26} \cup {UpperChars[i] : i \in 1..26}

Whitespace == {" ", "\t"}

Chars == AsciiLetters \cup Digits \cup Whitespace \cup {".", "_", "(", ")", "-"}

\* \w of the re module
IsWordChar(c) == c \in AsciiLetters \cup Digits \cup {"_"}

\* str.lower() on one character
Lower(c) ==
  IF \E i \in 1..26 : UpperChars[i] = c
  THEN LowerChars[CHOOSE i \in 1..26 : UpperChars[i] = c]
  ELSE c

LowerStr(s) == [i \in 1..Len(s) |-> Lower(s[i])]

\* str.count(c)
Count(s, c) == Cardinality({i \in 1..Len(s) : s[i] = c})

\* str.rfind(c), 1-based; 0 when c does not occur
RFind(s, c) ==
  IF \E i \in 1..Len(s) : s[i] = c
  THEN CHOOSE i \in 1..Len(s) : s[i] = c /\ \A j \in (i+1)..Len(s) : s[j] # c
  ELSE 0

\* str.find(c), 1-based; 0 when c does not occur
Find(s, c) ==
  IF \E i \in 1..Len(s) : s[i] = c
  THEN CHOOSE i \in 1..Len(s) : s[i] = c /\ \A j \in 1..(i-1) : s[j] # c
  ELSE 0

\* str.replace(a, b) for single characters
ReplaceChar(s, a, b) == [i \in 1..Len(s) |-> IF s[i] = a THEN b ELSE s[i]]

\* str.replace(c, '')
RemoveChar(s, c) == SelectSeq(s, LAMBDA x : x # c)

\* s with its longest suffix of characters of set cs removed
RStripChars(s, cs) ==
  LET keep == {i \in 1..Len(s) : s[i] \notin cs}
  IN IF keep = {} THEN <<>>
     ELSE SubSeq(s, 1, CHOOSE i \in keep : \A j \in keep : j <= i)

LStripChars(s, cs) ==
  LET keep == {i \in 1..Len(s) : s[i] \notin cs}
  IN IF keep = {} THEN <<>>
     ELSE SubSeq(s, CHOOSE i \in keep : \A j \in keep : i <= j, Len(s))

\* str.strip()
Strip(s) == LStripChars(RStripChars(s, Whitespace), Whitespace)

\* str.isdigit()
IsDigitStr(s) == Len(s) > 0 /\ \A i \in 1..Len(s) : s[i] \in Digits

\* s[:n]
Prefix(s, n) == SubSeq(s, 1, IF n < Len(s) THEN n ELSE Len(s))

\* the marker of a raised IndexError (no string: strings are sequences)
IndexError == "IndexError"

\* s[i] with Python's 0-based index i
CharAt(s, i) == IF i + 1 \in 1..Len(s) THEN s[i + 1] ELSE IndexError

RECURSIVE ToInt(_)
\* int(s) for a string of decimal digits
ToInt(s) ==
  IF s = <<>> THEN 0
  ELSE 10 * ToInt(SubSeq(s, 1, Len(s) - 1))
       + (CHOOSE d \in 0..9 : <<"0", "1", "2", "3", "4", "5", "6", "7", "8", "9">>[d + 1] = s[Len(s)])

RECURSIVE SplitWords(_)
\* str.split(): the maximal runs of non-whitespace characters, in order
SplitWords(s) ==
  LET t == LStripChars(s, Whitespace)
  IN IF t = <<>> THEN <<>>
     ELSE LET ws == {i \in 1..Len(t) : t[i] \in Whitespace}
              n  == IF ws = {} THEN Len(t)
                    ELSE (CHOOSE i \in ws : \A j \in ws : i <= j) - 1
          IN <<SubSeq(t, 1, n)>> \o SplitWords(SubSeq(t, n + 1, Len(t)))

RECURSIVE JoinSpace(_)
\* ' '.join(words)
JoinSpace(words) ==
  IF words = <<>> THEN <<>>
  ELSE IF Len(words) = 1 THEN words[1]
  ELSE words[1] \o <<" ">> \o JoinSpace(Tail(words))

-----------------------------------------------------------------------------
\* get_new_filename, step by step.

SUBTITLE_EXTENSIONS ==
  { <<".", "s", "r", "t">>, <<".", "s", "u", "b">>, <<".", "s", "m", "i">>, <<".", "s", "s", "a">>, <<".", "a", "s", "s">>, <<".", "v", "t", "t">>, <<".", "i", "d", "x">>,
    <<".", "s", "c", "c">>, <<".", "t", "t", "m", "l">>, <<".", "d", "f", "x", "p">>, <<".", "s", "b", "v">>, <<".", "s", "u", "p">> }

\* os.path.splitext for a name without a path separator: the extension starts
\* at the last dot, unless only dots precede that dot.
splitext(p) ==
  LET dotIndex == RFind(p, ".")
  IN IF dotIndex > 0 /\ \E k \in 1..(dotIndex - 1) : p[k] # "."
     THEN <<SubSeq(p, 1, dotIndex - 1), SubSeq(p, dotIndex, Len(p))>>
     ELSE <<p, <<>>>>

\* the subtitle test without ext.lower()
IsSubtitle_CaseSensitive(fname) == splitext(fname)[2] \in SUBTITLE_EXTENSIONS

IsSubtitle(fname) == LowerStr(splitext(fname)[2]) \in SUBTITLE_EXTENSIONS

\* the pattern with the letter required first: r"^[A-Za-z].*?\s\(\d{4}\)\.[^.]+$"
MatchesCleanPattern_LetterFirst(fname) ==
  \E w \in 2..(Len(fname) - 8) :
    /\ fname[w] \in Whitespace
    /\ fname[w + 1] = "("
    /\ \A k \in (w + 2)..(w + 5) : fname[k] \in Digits
    /\ fname[w + 6] = ")"
    /\ fname[w + 7] = "."
    /\ \A k \in (w + 8)..Len(fname) : fname[k] # "."
    /\ fname[1] \in AsciiLetters

\* re.match(r"^[^0-9]*[A-Za-z].*?\s\(\d{4}\)\.[^.]+$", fname): at some w a
\* whitespace character, "(", four digits, ")", ".", and one or more non-dot
\* characters to the end; and before w a letter l with no digit before it.
MatchesCleanPattern(fname) ==
  \E w \in 2..(Len(fname) - 8) :
    /\ fname[w] \in Whitespace
    /\ fname[w + 1] = "("
    /\ \A k \in (w + 2)..(w + 5) : fname[k] \in Digits
    /\ fname[w + 6] = ")"
    /\ fname[w + 7] = "."
    /\ \A k \in (w + 8)..Len(fname) : fname[k] # "."
    /\ \E l \in 1..(w - 1) :
         /\ fname[l] \in AsciiLetters
         /\ \A k \in 1..(l - 1) : fname[k] \notin Digits

\* the strip without its length test
StripLeadingIndex_NoLengthTest(name) ==
  IF IsDigitStr(Prefix(name, 2))
  THEN IF CharAt(name, 2) = IndexError THEN IndexError
       ELSE IF CharAt(name, 2) \in {".", " ", "_"}
            THEN SubSeq(name, 4, Len(name))
            ELSE name
  ELSE name

\* the strip with len(name) >= 3 for len(name) > 3
StripLeadingIndex_OffByOne(name) ==
  IF Len(name) >= 3 /\ IsDigitStr(Prefix(name, 2))
     /\ CharAt(name, 2) \in {".", " ", "_"}
  THEN SubSeq(name, 4, Len(name))
  ELSE name

\* if len(name) > 3 and name[:2].isdigit() and name[2] in ['.', ' ', '_']
StripLeadingIndex(name) ==
  IF Len(name) > 3 /\ IsDigitStr(Prefix(name, 2))
  THEN IF CharAt(name, 2) = IndexError THEN IndexError
       ELSE IF CharAt(name, 2) \in {".", " ", "_"}
            THEN SubSeq(name, 4, Len(name))
            ELSE name
  ELSE name

\* only the first underscore replaced, as name.replace('_', ' ', 1) would
ReplaceUnderscores_FirstOnly(name) ==
  [i \in 1..Len(name) |-> IF i = Find(name, "_") THEN " " ELSE name[i]]

\* name.replace('_', ' ')
ReplaceUnderscores(name) == ReplaceChar(name, "_", " ")

RECURSIVE RemoveGroups(_)
\* re.sub(r'\([^)]*\)', '', s): from the first "(" that has a ")" after it,
\* through the first ")" after it, is removed; the scan goes on behind it.
RemoveGroups(s) ==
  LET open == Find(s, "(")
      rest == SubSeq(s, open + 1, Len(s))
      close == Find(rest, ")")
  IN IF open = 0 \/ close = 0 THEN s
     ELSE SubSeq(s, 1, open - 1) \o RemoveGroups(SubSeq(rest, close + 1, Len(rest)))

\* the fallback with the second replace forgotten: only '(' is removed
HandleParentheses_OnlyOpen(name) ==
  IF Count(name, "(") # Count(name, ")")
  THEN RemoveChar(name, "(")
  ELSE Strip(RemoveGroups(name))

HandleParentheses(name) ==
  IF Count(name, "(") # Count(name, ")")
  THEN RemoveChar(RemoveChar(name, "("), ")")
  ELSE Strip(RemoveGroups(name))

\* the search without the word boundaries: r'(\d{4})'
YearSearch_NoWordBoundary(name) ==
  LET hits == {i \in 1..(Len(name) - 3) : \A k \in i..(i + 3) : name[k] \in Digits}
  IN IF hits = {} THEN 0 ELSE CHOOSE i \in hits : \A j \in hits : i <= j

\* re.search(r'\b(\d{4})\b', name): the 1-based start of the first run of
\* exactly four digits between word boundaries; 0 when there is none
YearSearch(name) ==
  LET hits == {i \in 1..(Len(name) - 3) :
                 /\ \A k \in i..(i + 3) : name[k] \in Digits
                 /\ (i = 1 \/ ~IsWordChar(name[i - 1]))
                 /\ (i + 4 > Len(name) \/ ~IsWordChar(name[i + 4]))}
  IN IF hits = {} THEN 0 ELSE CHOOSE i \in hits : \A j \in hits : i <= j

YEAR_MIN == 1900

YEAR_MAX == 2999

YearFound(name) ==
  /\ YearSearch(name) # 0
  /\ LET y == ToInt(SubSeq(name, YearSearch(name), YearSearch(name) + 3))
     IN YEAR_MIN <= y /\ y <= YEAR_MAX

\* the base name without the removal of trailing separators
BaseName_NoSeparatorStrip(name) == Strip(SubSeq(name, 1, YearSearch(name) - 1))

\* base_name = re.sub(r'[._\s]+$', '', name[:year_match.start()].strip())
BaseName(name) ==
  RStripChars(Strip(SubSeq(name, 1, YearSearch(name) - 1)),
              {".", "_"} \cup Whitespace)

\* the year enclosed in place, the text behind it kept
EncloseYear_KeepTail(name) ==
  IF YearFound(name)
  THEN BaseName(name) \o <<" ", "(">>
       \o SubSeq(name, YearSearch(name), YearSearch(name) + 3) \o <<")">>
       \o SubSeq(name, YearSearch(name) + 4, Len(name))
  ELSE name

EncloseYear(name) ==
  IF YearFound(name)
  THEN BaseName(name) \o <<" ", "(">>
       \o SubSeq(name, YearSearch(name), YearSearch(name) + 3) \o <<")">>
  ELSE name

\* the last step left out
CollapseSpaces_Skipped(name) == name

\* ' '.join(name.split())
CollapseSpaces(name) == JoinSpace(SplitWords(name))

\* the name after every step but the last, or IndexError
CleanedName(fname) ==
  LET stripped == StripLeadingIndex(splitext(fname)[1])
  IN IF stripped = IndexError THEN IndexError
     ELSE HandleParentheses(ReplaceUnderscores(stripped))

IsBypass(fname) == IsSubtitle(fname) \/ MatchesCleanPattern(fname)

\* the extension put back in lower case
get_new_filename_LowerExt(fname) ==
  IF IsSubtitle(fname) THEN fname
  ELSE IF MatchesCleanPattern(fname) THEN fname
  ELSE IF CleanedName(fname) = IndexError THEN IndexError
  ELSE CollapseSpaces(EncloseYear(CleanedName(fname))) \o LowerStr(splitext(fname)[2])

get_new_filename(fname) ==
  IF IsSubtitle(fname) THEN fname
  ELSE IF MatchesCleanPattern(fname) THEN fname
  ELSE IF CleanedName(fname) = IndexError THEN IndexError
  ELSE CollapseSpaces(EncloseYear(CleanedName(fname))) \o splitext(fname)[2]

-----------------------------------------------------------------------------
\* The file names the checks run on.

MaxTokens == 3

MaxWords == 2

BodyTokens == { <<"a">>, <<"0", "3">>, <<"2", "0", "2", "1">>, <<"4", "k">>, <<".">>, <<"_">>, <<" ">>, <<"(">>, <<")">> }

RECURSIVE TokenStrings(_)
\* the concatenations of at most n body tokens
TokenStrings(n) ==
  IF n = 0 THEN {<<>>}
  ELSE LET shorter == TokenStrings(n - 1)
       IN shorter \cup {s \o t : s \in shorter, t \in BodyTokens}

YearSuffixes == { <<>>, <<" ", "(", "2", "0", "2", "1", ")">> }

Extensions == { <<>>, <<".", "m", "k", "v">>, <<".", "S", "r", "t">> }

\* every body, with or without a parenthesised year, with or without extension
GeneratedNames ==
  {b \o y \o e : b \in TokenStrings(MaxTokens), y \in YearSuffixes, e \in Extensions}

UpperStr(s) ==
  [i \in 1..Len(s) |->
     IF \E k \in 1..26 : LowerChars[k] = s[i]
     THEN UpperChars[CHOOSE k \in 1..26 : LowerChars[k] = s[i]]
     ELSE s[i]]

NoisyNames ==
  { <<"m", "o", "v", "i", "e">>, <<"0", "3", ".", "a", "_", "b", ".", "2", "0", "2", "1", ".", "x">>, <<"0", "3", "_", "a", " ", "(", "2", "0", "2", "1", ")">>, <<"a", " ", "(", "b">>, <<"a", " ", "b", " ", "(", "2", "0", "2", "1", ")">>, <<".">> }

\* names with each subtitle extension, in lower and in upper case
SubtitleNames ==
  {n \o e : n \in NoisyNames,
            e \in SUBTITLE_EXTENSIONS \cup {UpperStr(x) : x \in SUBTITLE_EXTENSIONS}}

Words == { <<"a">>, <<"T", "h", "e">>, <<"M", "o", "v", "i", "e">> }

RECURSIVE JoinWith(_, _)
JoinWith(words, sep) ==
  IF Len(words) = 1 THEN words[1]
  ELSE words[1] \o sep \o JoinWith(Tail(words), sep)

WordLists == UNION {[1..n -> Words] : n \in 1..MaxWords}

ReleaseYears == { <<"1", "9", "0", "0">>, <<"2", "0", "2", "1">>, <<"2", "9", "9", "9">> }

ReleaseTags == { <<>>, <<".", "1", "0", "8", "0", "p">>, <<".", "4", "K", ".", "x", "(", "y", ")">>, <<".", "W", "E", "B", "-", "D", "L", "_", "a">> }

\* W1.W2. ... .Wn.Y.<tags>.ext
ReleaseName(ws, y, t, e) == JoinWith(ws, <<".">>) \o <<".">> \o y \o t \o e

ReleaseNames ==
  {ReleaseName(ws, y, t, <<".", "m", "k", "v">>) : ws \in WordLists, y \in ReleaseYears, t \in ReleaseTags}

Examples ==
  { <<"T", "h", "e", ".", "M", "o", "v", "i", "e", ".", "2", "0", "2", "1", ".", "1", "0", "8", "0", "p", ".", "m", "k", "v">>, <<"T", "h", "e", " ", "M", "o", "v", "i", "e", " ", "(", "2", "0", "2", "1", ")", ".", "m", "k", "v">>,
    <<"0", "3", ".", "T", "h", "e", " ", "M", "o", "v", "i", "e", ".", "m", "k", "v">>, <<"M", "y", "_", "S", "h", "o", "w", "_", "N", "a", "m", "e", "_", "2", "0", "1", "9", ".", "m", "p", "4">>, <<"M", "o", "v", "i", "e", " ", "(", "2", "0", "2", "1", ".", "m", "k", "v">>,
    <<"m", "o", "v", "i", "e", ".", "s", "r", "t">>, <<"M", "o", "v", "i", "e", ".", "1", "0", "8", "0", "p", ".", "m", "k", "v">>, <<"1", "2", " ", "M", "o", "n", "k", "e", "y", "s", " ", "(", "1", "9", "9", "5", ")", ".", "m", "k", "v">>,
    <<"3", "0", "0", ".", "2", "0", "0", "6", ".", "m", "k", "v">>, <<"3", "0", "0", " ", "(", "2", "0", "0", "6", ")", ".", "m", "k", "v">>, <<"A", ".", "1", "8", "9", "9", ".", "2", "0", "2", "1", ".", "m", "k", "v">>,
    <<"a", " ", " ", "b", "\t", "2", "0", "2", "1", " ", "x", ".", "m", "k", "v">>, <<"S", "e", "7", "e", "n", " ", "(", "1", "9", "9", "5", ")", ".", "m", "k", "v">>, <<"0", "1", ".", "M", "o", "v", "i", "e", ".", "N", "a", "m", "e", ".", "2", "0", "2", "1", ".", "1", "0", "8", "0", "p", ".", "B", "l", "u", "R", "a", "y", ".", "m", "k", "v">>,
    <<"(", "(", "a", ")", ")", ".", "m", "k", "v">>, <<")", "a", "(", ".", "m", "k", "v">>, <<"M", "o", "v", "i", "e", ".", "3", "0", "0", "0", ".", "m", "k", "v">>, <<"a", ".", "H", "d", "R", ".", "2", "0", "2", "1", ".", "m", "k", "v">>,
    <<"M", "o", "v", "i", "e", " ", "2", "0", "2", "1", ".", "M", "K", "V">>, <<" ", "a", ".", "b", " ", ".", "M", "p", "4">> }

Inputs == Examples \cup GeneratedNames \cup SubtitleNames \cup ReleaseNames

-----------------------------------------------------------------------------
\* One file name, normalised by a first run of the renamer and normalised
\* again by a second run over the renamed file.

Init ==
  /\ filename \in Inputs
  /\ new_filename = Unset
  /\ second_pass = Unset
  /\ pc = "start"
  /\ EpisodeIdle /\ BatchIdle /\ ScanIdle /\ LaterIdle("none")

Normalize ==
  /\ pc = "start"
  /\ new_filename' = get_new_filename(filename)
  /\ pc' = "normalized"
  /\ UNCHANGED <<filename, second_pass, episodeVars, batchVars, scanVars, laterVars>>

Renormalize ==
  /\ pc = "normalized"
  /\ new_filename # IndexError
  /\ second_pass' = get_new_filename(new_filename)
  /\ pc' = "renormalized"
  /\ UNCHANGED <<filename, new_filename, episodeVars, batchVars, scanVars, laterVars>>

Next == Normalize \/ Renormalize

Spec == Init /\ [][Next]_vars

-----------------------------------------------------------------------------
\* Vocabulary of the properties.

\* the tokens fetchart.py's clean_folder_name removes
QualityTags ==
  { <<"7", "2", "0", "p">>, <<"1", "0", "8", "0", "p">>, <<"2", "1", "6", "0", "p">>, <<"4", "K">>, <<"H", "D", "R">>, <<"R", "E", "M", "U", "X">>, <<"B", "l", "u", "R", "a", "y">>, <<"W", "E", "B", "-", "D", "L">> }

\* t occurs in s, letter case ignored
ContainsIgnoreCase(s, t) ==
  \E i \in 1..(Len(s) - Len(t) + 1) :
    \A k \in 1..Len(t) : Lower(s[i + k - 1]) = Lower(t[k])

HasQualityTag(s) == \E t \in QualityTags : ContainsIgnoreCase(s, t)

Contains(s, t) ==
  \E i \in 1..(Len(s) - Len(t) + 1) : SubSeq(s, i, i + Len(t) - 1) = t

EndsWithIgnoreCase(s, t) ==
  /\ Len(t) <= Len(s)
  /\ \A k \in 1..Len(t) : Lower(s[Len(s) - Len(t) + k]) = Lower(t[k])

Normalized == pc = "normalized"

\* the result of the first pass without the extension split off the input
OutputName ==
  SubSeq(new_filename, 1, Len(new_filename) - Len(splitext(filename)[2]))

\* four digits at i of s, with no letter, digit or underscore next to them
IsFourDigitToken(s, i) ==
  /\ i >= 1 /\ i + 3 <= Len(s)
  /\ \A k \in i..(i + 3) : s[k] \in Digits
  /\ (i = 1 \/ ~IsWordChar(s[i - 1]))
  /\ (i + 4 > Len(s) \/ ~IsWordChar(s[i + 4]))

FourDigits(s, i) == SubSeq(s, i, i + 3)

InYearRange(digits) == 1900 <= ToInt(digits) /\ ToInt(digits) <= 2999

FirstFourDigitToken(s) ==
  IF \E i \in 1..Len(s) : IsFourDigitToken(s, i)
  THEN CHOOSE i \in 1..Len(s) :
         IsFourDigitToken(s, i) /\ \A j \in 1..(i - 1) : ~IsFourDigitToken(s, j)
  ELSE 0

Parenthesized(digits) == <<"(">> \o digits \o <<")">>

-----------------------------------------------------------------------------
\* C1. Idempotence: normalising the result of the normaliser a second time
\* returns it unchanged, normalize(normalize(s)) = normalize(s) for every s.
\* (Stated as claimed; the code violates it, e.g. for "300.2006.mkv".)
C1_Idempotent == pc = "renormalized" => second_pass = new_filename

\* C2. Totality: for every input string, the empty one and names of three
\* characters or fewer included, the normaliser returns a string and raises
\* no exception.
C2_Total ==
  Normalized => new_filename # IndexError /\ new_filename \in Seq(Chars)

\* a name of two digits and no extension went through the index test
C2_Witness ==
  /\ pc = "normalized"
  /\ filename = <<"0", "3">>
  /\ new_filename = <<"0", "3">>

\* C3. Subtitle bypass: a file name that ends, letter case ignored, with one
\* of the twelve subtitle extensions is returned byte-identical, whatever
\* the rest of the name holds.
C3_SubtitleUnchanged ==
  Normalized =>
    ((\E e \in { <<".", "s", "r", "t">>, <<".", "s", "u", "b">>, <<".", "s", "m", "i">>, <<".", "s", "s", "a">>, <<".", "a", "s", "s">>, <<".", "v", "t", "t">>,
                <<".", "i", "d", "x">>, <<".", "s", "c", "c">>, <<".", "t", "t", "m", "l">>, <<".", "d", "f", "x", "p">>, <<".", "s", "b", "v">>, <<".", "s", "u", "p">> } :
        EndsWithIgnoreCase(filename, e))
     => new_filename = filename)

\* an upper-case subtitle extension behind a leading index, underscores and a year
C3_Witness ==
  /\ pc = "normalized"
  /\ filename = <<"0", "3", ".", "a", "_", "b", ".", "2", "0", "2", "1", ".", "x", ".", "S", "U", "P">>
  /\ new_filename = filename

\* title + " (" + four digits + ")" + "." + an extension without dot, the
\* title ending before position w
IsYearAndExtensionAt(s, w) ==
  /\ s[w] = " "
  /\ s[w + 1] = "("
  /\ \A k \in (w + 2)..(w + 5) : s[k] \in Digits
  /\ s[w + 6] = ")"
  /\ s[w + 7] = "."
  /\ \A k \in (w + 8)..Len(s) : s[k] # "."

\* C4 as claimed: every name of the shape title-with-a-letter, space,
\* parenthesised four digits, single extension is returned unchanged, also
\* when digits come before the first letter of the title.
C4_CleanShapeUnchanged ==
  Normalized =>
    ((\E w \in 2..(Len(filename) - 8) :
        /\ IsYearAndExtensionAt(filename, w)
        /\ \E l \in 1..(w - 1) : filename[l] \in AsciiLetters)
     => new_filename = filename)

\* C4. Already-clean bypass: a name of the shape title, space, parenthesised
\* four digits, single extension is returned unchanged when the title has a
\* letter with no digit anywhere before it (digits behind that letter do not
\* matter).
C4_CleanShapeNoLeadingDigit ==
  Normalized =>
    ((\E w \in 2..(Len(filename) - 8) :
        /\ IsYearAndExtensionAt(filename, w)
        /\ \E l \in 1..(w - 1) :
             /\ filename[l] \in AsciiLetters
             /\ \A k \in 1..(l - 1) : filename[k] \notin Digits)
     => new_filename = filename)

\* a clean name with a digit behind its first letter came back unchanged
C4_Witness ==
  /\ pc = "normalized"
  /\ filename = <<"S", "e", "7", "e", "n", " ", "(", "1", "9", "9", "5", ")", ".", "m", "k", "v">>
  /\ new_filename = filename

\* C5 as claimed: "W1.W2. ... .Wn.Y.<tags>.ext" becomes "W1 W2 ... Wn (Y).ext",
\* the words separated by spaces.
C5_DotsBecomeSpaces ==
  Normalized /\ filename \in ReleaseNames =>
    \A ws \in WordLists, y \in ReleaseYears, t \in ReleaseTags :
      filename = ReleaseName(ws, y, t, <<".", "m", "k", "v">>)
      => new_filename = JoinWith(ws, <<" ">>) \o <<" ">> \o Parenthesized(y) \o <<".", "m", "k", "v">>

\* C5. A release-style name "W1.W2. ... .Wn.Y.<tags>.ext" of letter-only
\* words, a year Y in 1900..2999 and a non-subtitle extension becomes
\* "W1.W2. ... .Wn (Y).ext": the tags go, the dots between the words stay.
C5_ReleaseName ==
  Normalized /\ filename \in ReleaseNames =>
    \A ws \in WordLists, y \in ReleaseYears, t \in ReleaseTags :
      filename = ReleaseName(ws, y, t, <<".", "m", "k", "v">>)
      => new_filename = JoinWith(ws, <<".">>) \o <<" ">> \o Parenthesized(y) \o <<".", "m", "k", "v">>

C5_Witness ==
  /\ pc = "normalized"
  /\ filename = <<"T", "h", "e", ".", "M", "o", "v", "i", "e", ".", "2", "0", "2", "1", ".", "1", "0", "8", "0", "p", ".", "m", "k", "v">>
  /\ new_filename = <<"T", "h", "e", ".", "M", "o", "v", "i", "e", " ", "(", "2", "0", "2", "1", ")", ".", "m", "k", "v">>

\* the text before position i of s without trailing '.', '_' and whitespace
TextBefore(s, i) == RStripChars(SubSeq(s, 1, i - 1), {".", "_"} \cup Whitespace)

EndsWithYearSuffix(s) ==
  /\ Len(s) >= 6
  /\ s[Len(s) - 5] = "(" /\ s[Len(s)] = ")"
  /\ \A k \in (Len(s) - 4)..(Len(s) - 1) : s[k] \in Digits

C7_EveryYearParenthesized ==
  Normalized /\ ~IsSubtitle(filename) =>
    LET name == ReplaceChar(splitext(filename)[1], "_", " ")
    IN \A i \in 1..Len(name) :
         IsFourDigitToken(name, i) /\ InYearRange(FourDigits(name, i))
         => Contains(new_filename, Parenthesized(FourDigits(name, i)))

\* C8 as claimed: outside the bypass cases the result holds no quality tag,
\* in any letter case, with or without a year in the name.
C8_NoQualityTagLeft ==
  Normalized /\ ~IsBypass(filename) => ~HasQualityTag(OutputName)

\* C8. get_new_filename has no step that removes quality tags: outside the
\* bypass cases the result holds a quality tag exactly when one stands in
\* the part of the cleaned name that is kept, which is the text before a
\* detected year, or the whole name when no year is detected. A tag behind
\* the year goes with the rest of the tail; normalize("Movie.1080p.mkv")
\* is "Movie.1080p.mkv".
C8_TagsOnlyDropWithTail ==
  Normalized /\ ~IsBypass(filename) =>
    LET name == CleanedName(filename)
        i == FirstFourDigitToken(name)
        kept == IF i # 0 /\ InYearRange(FourDigits(name, i))
                THEN SubSeq(name, 1, i - 1)
                ELSE name
    IN /\ HasQualityTag(OutputName) <=> HasQualityTag(kept)
       /\ filename = <<"M", "o", "v", "i", "e", ".", "1", "0", "8", "0", "p", ".", "m", "k", "v">> => new_filename = filename

\* a tag behind the year went with the tail
C8_Witness ==
  /\ pc = "normalized"
  /\ filename = <<"0", "1", ".", "M", "o", "v", "i", "e", ".", "N", "a", "m", "e", ".", "2", "0", "2", "1", ".", "1", "0", "8", "0", "p", ".", "B", "l", "u", "R", "a", "y", ".", "m", "k", "v">>
  /\ new_filename = <<"M", "o", "v", "i", "e", ".", "N", "a", "m", "e", " ", "(", "2", "0", "2", "1", ")", ".", "m", "k", "v">>

\* the result for a name (without extension) after the leading-index step
AfterIndexStep(name, ext) ==
  CollapseSpaces(EncloseYear(HandleParentheses(ReplaceUnderscores(name)))) \o ext

\* C9. Leading index: outside the bypass cases the first three characters of
\* the name (without extension) are dropped exactly when the name is longer
\* than 3 characters, starts with two digits and has '.', ' ' or '_' third;
\* normalize("03.The Movie.mkv") is "The Movie.mkv".
C9_LeadingIndex ==
  Normalized /\ ~IsBypass(filename) =>
    LET name == splitext(filename)[1]
        indexed == /\ Len(name) > 3
                   /\ name[1] \in Digits /\ name[2] \in Digits
                   /\ name[3] \in {".", " ", "_"}
    IN /\ new_filename =
            AfterIndexStep(IF indexed THEN SubSeq(name, 4, Len(name)) ELSE name,
                           splitext(filename)[2])
       /\ filename = <<"0", "3", ".", "T", "h", "e", " ", "M", "o", "v", "i", "e", ".", "m", "k", "v">> => new_filename = <<"T", "h", "e", " ", "M", "o", "v", "i", "e", ".", "m", "k", "v">>

C9_Witness ==
  /\ pc = "normalized"
  /\ filename = <<"0", "3", ".", "T", "h", "e", " ", "M", "o", "v", "i", "e", ".", "m", "k", "v">>
  /\ new_filename = <<"T", "h", "e", " ", "M", "o", "v", "i", "e", ".", "m", "k", "v">>

\* C10. Underscores: outside the bypass cases the result, up to the original
\* extension, holds no underscore; normalize("My_Show_Name_2019.mp4") is
\* "My Show Name (2019).mp4".
C10_NoUnderscore ==
  Normalized /\ ~IsBypass(filename) =>
    /\ \A k \in 1..Len(OutputName) : OutputName[k] # "_"
    /\ filename = <<"M", "y", "_", "S", "h", "o", "w", "_", "N", "a", "m", "e", "_", "2", "0", "1", "9", ".", "m", "p", "4">> => new_filename = <<"M", "y", " ", "S", "h", "o", "w", " ", "N", "a", "m", "e", " ", "(", "2", "0", "1", "9", ")", ".", "m", "p", "4">>

C10_Witness ==
  /\ pc = "normalized"
  /\ filename = <<"M", "y", "_", "S", "h", "o", "w", "_", "N", "a", "m", "e", "_", "2", "0", "1", "9", ".", "m", "p", "4">>
  /\ new_filename = <<"M", "y", " ", "S", "h", "o", "w", " ", "N", "a", "m", "e", " ", "(", "2", "0", "1", "9", ")", ".", "m", "p", "4">>

\* the name as it reaches the parenthesis step: index stripped, underscores replaced
NameBeforeParentheses == ReplaceUnderscores(StripLeadingIndex(splitext(filename)[1]))

IsParenthesis(c) == c = "(" \/ c = ")"

C12_NoParenthesisLeft ==
  Normalized /\ ~IsBypass(filename) =>
    LET name == NameBeforeParentheses
        opens == Cardinality({k \in 1..Len(name) : name[k] = "("})
        closes == Cardinality({k \in 1..Len(name) : name[k] = ")"})
    IN opens = closes =>
         \A k \in 1..Len(CleanedName(filename)) : ~IsParenthesis(CleanedName(filename)[k])


\* C21. Whitespace collapse: in every result that is not a bypass, the
\* name part (the output without the original extension) has no whitespace
\* at either end and no two whitespace characters in a row.
C21_WhitespaceCollapsed ==
  (Normalized /\ ~IsBypass(filename) /\ new_filename # IndexError) =>
    /\ OutputName # <<>> =>
         /\ OutputName[1] \notin Whitespace
         /\ OutputName[Len(OutputName)] \notin Whitespace
    /\ \A i \in 1..(Len(OutputName) - 1) :
         ~(OutputName[i] \in Whitespace /\ OutputName[i + 1] \in Whitespace)

\* two blanks and a tab in the input, single blanks in the output
C21_Witness ==
  /\ Normalized
  /\ filename = <<"a", " ", " ", "b", "\t", "2", "0", "2", "1", " ", "x", ".", "m", "k", "v">>
  /\ new_filename = <<"a", " ", "b", " ", "(", "2", "0", "2", "1", ")", ".", "m", "k", "v">>

\* the part of a name from its last dot, none when only dots precede it
OriginalExtension(fname) ==
  IF \E d \in 1..Len(fname) :
       /\ fname[d] = "."
       /\ \A k \in (d + 1)..Len(fname) : fname[k] # "."
       /\ \E k \in 1..(d - 1) : fname[k] # "."
  THEN SubSeq(fname, CHOOSE d \in 1..Len(fname) :
                       fname[d] = "." /\ \A k \in (d + 1)..Len(fname) : fname[k] # ".",
              Len(fname))
  ELSE <<>>

\* C22. Extension preservation: for every input the output ends with the
\* input's original extension (the part from the last dot, as it is split
\* off before processing), the same characters in the same case.
C22_ExtensionPreserved ==
  (Normalized /\ new_filename # IndexError) =>
    LET ext == OriginalExtension(filename)
    IN /\ Len(new_filename) >= Len(ext)
       /\ SubSeq(new_filename, Len(new_filename) - Len(ext) + 1, Len(new_filename)) = ext

\* an extension in capitals, kept as it is
C22_Witness ==
  /\ Normalized
  /\ filename = <<"M", "o", "v", "i", "e", " ", "2", "0", "2", "1", ".", "M", "K", "V">>
  /\ new_filename = <<"M", "o", "v", "i", "e", " ", "(", "2", "0", "2", "1", ")", ".", "M", "K", "V">>

-----------------------------------------------------------------------------
\* updatetitle.py: extract_episode_info and format_show_title.

\* the 1-based start of the first occurrence of sub in s; 0 when there is none
FindSub(s, sub) ==
  LET hits == {i \in 1..(Len(s) - Len(sub) + 1) : SubSeq(s, i, i + Len(sub) - 1) = sub}
  IN IF hits = {} THEN 0 ELSE CHOOSE i \in hits : \A j \in hits : i <= j

RECURSIVE Split(_, _)
\* str.split(sep): the pieces between the occurrences of sep, found left to right
Split(s, sep) ==
  LET at == FindSub(s, sep)
  IN IF at = 0 THEN <<s>>
     ELSE <<SubSeq(s, 1, at - 1)>> \o Split(SubSeq(s, at + Len(sep), Len(s)), sep)

\* pathlib's PurePath.stem of a file name: the name up to its last dot, when
\* that dot is neither the first nor the last character
Stem(name) ==
  LET i == RFind(name, ".")
  IN IF 1 < i /\ i < Len(name) THEN SubSeq(name, 1, i - 1) ELSE name

DigitsAt(s, p, n) == p >= 1 /\ p + n - 1 <= Len(s) /\ \A k \in p..(p + n - 1) : s[k] \in Digits

\* (\d{1,2})<mid>(\d{1,2}) matched at p the way re matches it: each group
\* takes two digits when it can and gives one back when the rest does not
\* follow. The two groups, or <<>> when the pattern does not match at p.
TwoNumbersAt(s, p, mid) ==
  LET second(q) == IF DigitsAt(s, q, 2) THEN SubSeq(s, q, q + 1)
                   ELSE IF DigitsAt(s, q, 1) THEN SubSeq(s, q, q)
                   ELSE <<>>
      try(a) == IF DigitsAt(s, p, a) /\ p + a <= Len(s) /\ s[p + a] \in mid
                   /\ second(p + a + 1) # <<>>
                THEN <<SubSeq(s, p, p + a - 1), second(p + a + 1)>>
                ELSE <<>>
  IN IF try(2) # <<>> THEN try(2) ELSE try(1)

\* re.search(r'[Ss](\d{1,2})[Ee](\d{1,2})', s): the groups of the first match
SearchSeasonEpisode(s) ==
  LET hits == {i \in 1..Len(s) : s[i] \in {"S", "s"} /\ TwoNumbersAt(s, i + 1, {"E", "e"}) # <<>>}
  IN IF hits = {} THEN <<>>
     ELSE TwoNumbersAt(s, (CHOOSE i \in hits : \A j \in hits : i <= j) + 1, {"E", "e"})

\* re.search(r'(\d{1,2})x(\d{1,2})', s): the groups of the first match
SearchAlt(s) ==
  LET hits == {i \in 1..Len(s) : TwoNumbersAt(s, i, {"x"}) # <<>>}
  IN IF hits = {} THEN <<>>
     ELSE TwoNumbersAt(s, CHOOSE i \in hits : \A j \in hits : i <= j, {"x"})

\* str(n) for 0 <= n <= 99
IntToStr(n) ==
  LET d == <<"0", "1", "2", "3", "4", "5", "6", "7", "8", "9">>
  IN IF n < 10 THEN <<d[n + 1]>> ELSE <<d[(n \div 10) + 1], d[(n % 10) + 1]>>

\* the number left as str(int(...)) gives it, without zfill
Unpadded(digits) == IntToStr(ToInt(digits))

\* str(int(digits)).zfill(2)
ZeroPad(digits) ==
  LET n == IntToStr(ToInt(digits))
  IN IF Len(n) < 2 THEN <<"0">> \o n ELSE n

\* the 1x01 pattern tried before the S01E01 pattern
SeasonEpisode_AltFirst(stem) ==
  IF SearchAlt(stem) # <<>> THEN SearchAlt(stem) ELSE SearchSeasonEpisode(stem)

\* the else branch with the 1x01 pattern left out
SeasonEpisode_NoAlt(stem) == SearchSeasonEpisode(stem)

\* the match the numbers are taken from: S01E01 first, 1x01 only without it
SeasonEpisode(stem) ==
  IF SearchSeasonEpisode(stem) # <<>> THEN SearchSeasonEpisode(stem) ELSE SearchAlt(stem)

\* the title taken as soon as there are two parts: len(parts) > 1
EpisodeTitle_TwoParts(stem) ==
  LET parts == Split(stem, <<" ", "-", " ">>)
  IN IF Len(parts) > 1 THEN Strip(parts[Len(parts)]) ELSE <<>>

\* parts = filename.split(" - "); parts[-1].strip() if len(parts) > 2
EpisodeTitle(stem) ==
  LET parts == Split(stem, <<" ", "-", " ">>)
  IN IF Len(parts) > 2 THEN Strip(parts[Len(parts)]) ELSE <<>>

\* the 1x01 pattern giving the episode alone
extract_episode_info_AltEpisodeOnly(name) ==
  LET stem == Stem(name)
  IN IF SearchSeasonEpisode(stem) # <<>>
     THEN <<ZeroPad(SearchSeasonEpisode(stem)[1]), ZeroPad(SearchSeasonEpisode(stem)[2]),
            EpisodeTitle(stem)>>
     ELSE IF SearchAlt(stem) # <<>>
     THEN <<<<>>, ZeroPad(SearchAlt(stem)[2]), EpisodeTitle(stem)>>
     ELSE <<<<>>, <<>>, EpisodeTitle(stem)>>

\* (season_num, episode_num, episode_title) for the file name of file_path
extract_episode_info(name) ==
  LET stem == Stem(name)
      match == SeasonEpisode(stem)
  IN IF match # <<>>
     THEN <<ZeroPad(match[1]), ZeroPad(match[2]), EpisodeTitle(stem)>>
     ELSE <<<<>>, <<>>, EpisodeTitle(stem)>>

\* the season-only case given a marker of its own
format_show_title_SeasonAlone(show_name, season, episode, episode_title) ==
  LET base == IF season # <<>> /\ episode # <<>>
              THEN show_name \o <<" ", "S">> \o season \o <<"E">> \o episode
              ELSE IF episode # <<>> THEN show_name \o <<" ", "E">> \o episode
              ELSE IF season # <<>> THEN show_name \o <<" ", "S">> \o season
              ELSE show_name
  IN IF episode_title # <<>> THEN base \o <<" ", "-", " ">> \o episode_title ELSE base

format_show_title(show_name, season, episode, episode_title) ==
  LET base == IF season # <<>> /\ episode # <<>>
              THEN show_name \o <<" ", "S">> \o season \o <<"E">> \o episode
              ELSE IF episode # <<>> THEN show_name \o <<" ", "E">> \o episode
              ELSE show_name
  IN IF episode_title # <<>> THEN base \o <<" ", "-", " ">> \o episode_title ELSE base

MaxEpisodeTokens == 4

EpisodeTokens == { <<"S">>, <<"e">>, <<"x">>, <<"1">>, <<"0", "2">>, <<" ", "-", " ">>, <<"a">>, <<".">> }

RECURSIVE EpisodeStrings(_)
EpisodeStrings(n) ==
  IF n = 0 THEN {<<>>}
  ELSE LET shorter == EpisodeStrings(n - 1)
       IN shorter \cup {s \o k : s \in shorter, k \in EpisodeTokens}

EpisodeExamples ==
  { <<"S", "h", "o", "w", " ", "-", " ", "S", "0", "2", "E", "0", "5", " ", "-", " ", "T", "h", "e", " ", "R", "e", "t", "u", "r", "n", ".", "m", "k", "v">>, <<"s", "h", "o", "w", ".", "s", "1", "E", "2", ".", "m", "k", "v">>, <<"S", "1", "2", "3", "E", "1", ".", "m", "k", "v">>,
    <<"S", "1", "E", "1", "2", "3", ".", "m", "k", "v">>, <<"S", "h", "o", "w", " ", "1", "x", "0", "2", ".", "m", "k", "v">>, <<"1", "0", "8", "0", "x", "7", "2", "0", ".", "m", "k", "v">>, <<"1", "x", "2", "S", "3", "E", "4", ".", "m", "k", "v">>,
    <<"a", " ", "-", " ", "b", " ", "-", " ", ".", "m", "k", "v">>, <<"S", "h", "o", "w", " ", "-", " ", "3", "x", "0", "4", " ", "-", " ", "b", " ", "-", " ", "c", " ", ".", "m", "k", "v">>, <<"x", ".", "S", "1", "E", "2">> }

\* every string but "", "." and "..", which name no file
EpisodeFiles ==
  (EpisodeExamples \cup EpisodeStrings(MaxEpisodeTokens)) \ { <<>>, <<".">>, <<".", ".">> }

Shows == { <<"S", "h", "o", "w">>, <<"a", " ", "2", "0", "2", "1">> }

\* the arguments of a call of format_show_title
FormatArgs ==
  {<<show, season, episode, title>> :
     show \in Shows, season \in {<<>>, <<"0", "2">>}, episode \in {<<>>, <<"0", "5">>},
     title \in {<<>>, <<"T", "h", "e", " ", "R", "e", "t", "u", "r", "n">>}}

\* a file handed to extract_episode_info, or arguments handed to format_show_title
InitEpisode ==
  /\ NormalizerIdle /\ BatchIdle /\ ScanIdle /\ LaterIdle("none")
  /\ ep_info = Unset
  /\ show_title = Unset
  /\ ep_pc = "start"
  /\ \/ ep_file \in EpisodeFiles /\ fmt_args = Unset
     \/ ep_file = Unset /\ fmt_args \in FormatArgs

ExtractEpisodeInfo ==
  /\ ep_pc = "start"
  /\ ep_file # Unset
  /\ ep_info' = extract_episode_info(ep_file)
  /\ ep_pc' = "extracted"
  /\ UNCHANGED <<ep_file, fmt_args, show_title, normVars, batchVars, scanVars, laterVars>>

\* process_videos: the title of a show's file, from its episode information
FormatEpisodeTitle ==
  /\ ep_pc = "extracted"
  /\ \E show \in Shows :
       /\ fmt_args' = <<show, ep_info[1], ep_info[2], ep_info[3]>>
       /\ show_title' = format_show_title(show, ep_info[1], ep_info[2], ep_info[3])
  /\ ep_pc' = "formatted"
  /\ UNCHANGED <<ep_file, ep_info, normVars, batchVars, scanVars, laterVars>>

\* format_show_title called with arguments of the caller's choice
FormatShowTitle ==
  /\ ep_pc = "start"
  /\ fmt_args # Unset
  /\ show_title' = format_show_title(fmt_args[1], fmt_args[2], fmt_args[3], fmt_args[4])
  /\ ep_pc' = "formatted"
  /\ UNCHANGED <<ep_file, ep_info, fmt_args, normVars, batchVars, scanVars, laterVars>>

NextEpisode == ExtractEpisodeInfo \/ FormatEpisodeTitle \/ FormatShowTitle

SpecEpisode == InitEpisode /\ [][NextEpisode]_vars

-----------------------------------------------------------------------------
\* Vocabulary of the episode properties.

Extracted == ep_pc = "extracted"

\* S or s, a digits, E or e, b digits, starting at i of s
SeasonEpisodeAt(s, i, a, b) ==
  /\ s[i] \in {"S", "s"}
  /\ DigitsAt(s, i + 1, a)
  /\ i + a + 1 <= Len(s) /\ s[i + a + 1] \in {"E", "e"}
  /\ DigitsAt(s, i + a + 2, b)

\* a digits, x, b digits, starting at i of s
AltAt(s, i, a, b) ==
  /\ DigitsAt(s, i, a)
  /\ i + a <= Len(s) /\ s[i + a] = "x"
  /\ DigitsAt(s, i + a + 1, b)

SeasonEpisodeMatches(s) ==
  {m \in (1..Len(s)) \X (1..2) \X (1..2) : SeasonEpisodeAt(s, m[1], m[2], m[3])}

AltMatches(s) ==
  {m \in (1..Len(s)) \X (1..2) \X (1..2) : AltAt(s, m[1], m[2], m[3])}

\* the leftmost match, with the longest episode number it allows
FirstMatch(ms) ==
  CHOOSE m \in ms : \A o \in ms : m[1] < o[1] \/ (m[1] = o[1] /\ m[3] >= o[3])

\* one digit with a zero in front, two digits as they are
TwoDigits(digits) == IF Len(digits) = 1 THEN <<"0">> \o digits ELSE digits

\* C13. Season and episode: when the stem holds S<1-2 digits>E<1-2 digits>
\* (S and E in either case) both numbers come from the first such match;
\* only without one do they come from the first <1-2 digits>x<1-2 digits>;
\* each number returned has exactly two digits, a zero in front if needed.
\* "Show - S02E05 - The Return.mkv" gives season "02", episode "05".
C13_SeasonEpisode ==
  Extracted =>
    LET stem == Stem(ep_file)
        se == SeasonEpisodeMatches(stem)
        alt == AltMatches(stem)
    IN /\ se # {} =>
            LET m == FirstMatch(se)
            IN /\ ep_info[1] = TwoDigits(SubSeq(stem, m[1] + 1, m[1] + m[2]))
               /\ ep_info[2] = TwoDigits(SubSeq(stem, m[1] + m[2] + 2, m[1] + m[2] + m[3] + 1))
       /\ se = {} /\ alt # {} =>
            LET m == FirstMatch(alt)
            IN /\ ep_info[1] = TwoDigits(SubSeq(stem, m[1], m[1] + m[2] - 1))
               /\ ep_info[2] = TwoDigits(SubSeq(stem, m[1] + m[2] + 1, m[1] + m[2] + m[3]))
       /\ Len(ep_info[1]) \in {0, 2} /\ Len(ep_info[2]) \in {0, 2}
       /\ ep_file = <<"S", "h", "o", "w", " ", "-", " ", "S", "0", "2", "E", "0", "5", " ", "-", " ", "T", "h", "e", " ", "R", "e", "t", "u", "r", "n", ".", "m", "k", "v">>
            => ep_info[1] = <<"0", "2">> /\ ep_info[2] = <<"0", "5">>

\* both patterns in one stem: the numbers are those of the S..E.. match
C13_Witness ==
  /\ Extracted
  /\ ep_file = <<"1", "x", "2", "S", "3", "E", "4", ".", "m", "k", "v">>
  /\ ep_info[1] = <<"0", "3">> /\ ep_info[2] = <<"0", "4">>

\* C14. Episode title: the stem is split on " - "; the title is the last
\* segment, trimmed, when there are more than two segments and empty when
\* there are one or two, whether or not a season/episode pattern is found.
C14_EpisodeTitle ==
  Extracted =>
    LET parts == Split(Stem(ep_file), <<" ", "-", " ">>)
    IN /\ Len(parts) > 2 => ep_info[3] = Strip(parts[Len(parts)])
       /\ Len(parts) <= 2 => ep_info[3] = <<>>
       /\ ep_file = <<"S", "h", "o", "w", " ", "-", " ", "S", "0", "2", "E", "0", "5", " ", "-", " ", "T", "h", "e", " ", "R", "e", "t", "u", "r", "n", ".", "m", "k", "v">> => ep_info[3] = <<"T", "h", "e", " ", "R", "e", "t", "u", "r", "n">>

\* four segments, no S..E.. pattern, blanks around the last segment
C14_Witness ==
  /\ Extracted
  /\ ep_file = <<"S", "h", "o", "w", " ", "-", " ", "3", "x", "0", "4", " ", "-", " ", "b", " ", "-", " ", "c", " ", ".", "m", "k", "v">>
  /\ ep_info[3] = <<"c">>

\* C15 as claimed: each of season, episode and title is empty exactly when
\* its own pattern did not match.
C15_EmptyExactlyWithoutMatch ==
  Extracted =>
    LET stem == Stem(ep_file)
        matched == SeasonEpisodeMatches(stem) # {} \/ AltMatches(stem) # {}
    IN /\ ep_info[1] = <<>> <=> ~matched
       /\ ep_info[2] = <<>> <=> ~matched
       /\ ep_info[3] = <<>> <=> Len(Split(stem, <<" ", "-", " ">>)) <= 2

\* C15. extract_episode_info returns three strings for every file name and
\* raises nothing; season and episode are empty exactly when neither
\* pattern matches the stem; the title is empty exactly when the split on
\* " - " gives at most two segments or a last segment that is empty or blank.
C15_OptionalOutputs ==
  Extracted =>
    LET stem == Stem(ep_file)
        matched == SeasonEpisodeMatches(stem) # {} \/ AltMatches(stem) # {}
        parts == Split(stem, <<" ", "-", " ">>)
    IN /\ \A k \in 1..3 : ep_info[k] \in Seq(Chars)
       /\ ep_info[1] = <<>> <=> ~matched
       /\ ep_info[2] = <<>> <=> ~matched
       /\ ep_info[3] = <<>> <=>
            (Len(parts) <= 2 \/ \A k \in 1..Len(parts[Len(parts)]) :
                                   parts[Len(parts)][k] \in Whitespace)

\* numbers found, three segments, and yet an empty title
C15_Witness ==
  /\ Extracted
  /\ ep_file = <<"a", " ", "-", " ", "b", " ", "-", " ", ".", "m", "k", "v">>
  /\ ep_info = << <<>>, <<>>, <<>> >>

Formatted == ep_pc = "formatted"

\* C16. format_show_title returns show, then " S{season}E{episode}" when
\* season and episode are both non-empty, else " E{episode}" when only the
\* episode is, else nothing; then " - {episodeTitle}" when that is
\* non-empty. The result starts with show; a season alone adds nothing.
C16_FormatShowTitle ==
  Formatted =>
    LET show == fmt_args[1]
        season == fmt_args[2]
        episode == fmt_args[3]
        title == fmt_args[4]
        marker == CASE season # <<>> /\ episode # <<>> ->
                         <<" ", "S">> \o season \o <<"E">> \o episode
                    [] season = <<>> /\ episode # <<>> -> <<" ", "E">> \o episode
                    [] episode = <<>> -> <<>>
        tail == IF title = <<>> THEN <<>> ELSE <<" ", "-", " ">> \o title
    IN /\ show_title = show \o marker \o tail
       /\ SubSeq(show_title, 1, Len(show)) = show
       /\ season # <<>> /\ episode = <<>> /\ title = <<>> => show_title = show

\* the episode-only branch, with a title
C16_Witness ==
  /\ Formatted
  /\ fmt_args = << <<"S", "h", "o", "w">>, <<>>, <<"0", "5">>, <<"T", "h", "e", " ", "R", "e", "t", "u", "r", "n">> >>
  /\ show_title = <<"S", "h", "o", "w", " ", "E", "0", "5", " ", "-", " ", "T", "h", "e", " ", "R", "e", "t", "u", "r", "n">>


\* C24. Season and episode are found together or not at all: for every
\* file name extract_episode_info returns a non-empty season exactly when
\* it returns a non-empty episode; so a title process_videos builds from
\* its result never takes the episode-only branch " E{episode}".
C24_SeasonWithEpisode ==
  /\ Extracted => (ep_info[1] = <<>> <=> ep_info[2] = <<>>)
  /\ (Formatted /\ ep_file # Unset) =>
       /\ ~(fmt_args[2] = <<>> /\ fmt_args[3] # <<>>)
       /\ Len(show_title) >= Len(fmt_args[1]) + 2 =>
            SubSeq(show_title, Len(fmt_args[1]) + 1, Len(fmt_args[1]) + 2) # <<" ", "E">>

\* a title built from a 1x02 name: season and episode both in it
C24_Witness ==
  /\ Formatted
  /\ ep_file # Unset
  /\ ep_file = <<"S", "h", "o", "w", " ", "1", "x", "0", "2", ".", "m", "k", "v">>
  /\ fmt_args = << <<"S", "h", "o", "w">>, <<"0", "1">>, <<"0", "2">>, <<>> >>
  /\ show_title = <<"S", "h", "o", "w", " ", "S", "0", "1", "E", "0", "2">>

-----------------------------------------------------------------------------
\* The batch renamer: main and process_directory of fixfiles.py, over one
\* directory of the walk.

\* --execute is a store_true flag: absent means False
ParseExecute_DefaultTrue(args) == ~(\E i \in 1..Len(args) : args[i] = "--execute")

ParseExecute(args) == \E i \in 1..Len(args) : args[i] = "--execute"

\* what a name of the directory is: something exists() sees (a regular
\* file, a link to one), or a symbolic link whose target is missing
EntryKinds == {"file", "dangling link"}

\* Path.exists(): the path is followed, so a dangling link does not exist;
\* the empty name is the directory itself
PathExists(files, name) ==
  \/ name = <<>>
  \/ name \in DOMAIN files /\ files[name][1] = "file"

\* Path.rename(): the entry takes the new name, replacing an entry there
RenameEntry(files, old, new) ==
  [n \in (DOMAIN files \ {old}) \cup {new} |->
      IF n = new THEN files[old] ELSE files[n]]

MaxBatchFiles == 3

\* names that normalize to one name, names that stay, a name that
\* normalizes twice, a name that normalizes to nothing
BatchNames ==
  { <<"0", "1", ".", "a", " ", "2", "0", "2", "1", ".", "m", "k", "v">>, <<"a", " ", "2", "0", "2", "1", ".", "m", "k", "v">>, <<"a", " ", "(", "2", "0", "2", "1", ")", ".", "m", "k", "v">>, <<"3", "0", "0", ".", "2", "0", "0", "6", ".", "m", "k", "v">>,
    <<"3", "0", "0", " ", "(", "2", "0", "0", "6", ")", ".", "m", "k", "v">>, <<"b", ".", "s", "r", "t">>, <<"(", "2", "0", "2", "1", ")">> }

\* new_filename = get_new_filename(filename), for each name of a directory
NewName == [n \in BatchNames |-> get_new_filename(n)]

\* a directory: each name with its kind and, as its content, the name it
\* had at the start
Directories ==
  LET kinds == UNION { [S -> EntryKinds] :
                         S \in {T \in SUBSET BatchNames : Cardinality(T) <= MaxBatchFiles} }
  IN { [n \in DOMAIN d |-> <<d[n], n>>] : d \in kinds }

\* os.walk lists the names in the order the system gives them
Listings(names) ==
  { l \in [1..Cardinality(names) -> names] :
      \A i, j \in 1..Cardinality(names) : i # j => l[i] # l[j] }

InitBatch ==
  /\ NormalizerIdle /\ EpisodeIdle /\ ScanIdle /\ LaterIdle("none")
  /\ argv \in { <<>>, <<"--execute">> }
  /\ execute = FALSE
  /\ root_exists \in BOOLEAN
  /\ fs \in (IF root_exists THEN Directories ELSE { <<>> })
  /\ fs0 = fs
  /\ listing = <<>>
  /\ idx = 0
  /\ log = <<>>
  /\ batch_pc = "main"

\* main: the mode is announced and process_directory called
Main ==
  /\ batch_pc = "main"
  /\ execute' = ParseExecute(argv)
  /\ log' = << <<IF ParseExecute(argv) THEN "execute mode" ELSE "dry run mode", <<>>, <<>>>> >>
  /\ batch_pc' = "process"
  /\ UNCHANGED <<argv, root_exists, fs, fs0, listing, idx, normVars, episodeVars, scanVars, laterVars>>

ReportMissingDirectory ==
  /\ batch_pc = "process"
  /\ ~root_exists
  /\ log' = Append(log, <<"Error: Directory does not exist", <<>>, <<>>>>)
  /\ batch_pc' = "done"
  /\ UNCHANGED <<argv, execute, root_exists, fs, fs0, listing, idx, normVars, episodeVars, scanVars, laterVars>>

\* os.walk reads the directory's names once, before the loop over them
Walk ==
  /\ batch_pc = "process"
  /\ root_exists
  /\ listing' \in Listings(DOMAIN fs)
  /\ idx' = 1
  /\ batch_pc' = "walk"
  /\ UNCHANGED <<argv, execute, root_exists, fs, fs0, log, normVars, episodeVars, scanVars, laterVars>>

AtFile == batch_pc = "walk" /\ idx <= Len(listing)

NextFile ==
  /\ idx' = idx + 1
  /\ UNCHANGED <<argv, execute, root_exists, fs0, listing, batch_pc, normVars, episodeVars, scanVars, laterVars>>

SkipUnchanged ==
  /\ AtFile
  /\ listing[idx] = NewName[listing[idx]]
  /\ UNCHANGED <<fs, log>>
  /\ NextFile

WarnTargetExists ==
  /\ AtFile
  /\ listing[idx] # NewName[listing[idx]]
  /\ execute
  /\ PathExists(fs, NewName[listing[idx]])
  /\ log' = Append(log, <<"Warning", listing[idx], NewName[listing[idx]]>>)
  /\ UNCHANGED fs
  /\ NextFile

Rename ==
  /\ AtFile
  /\ listing[idx] # NewName[listing[idx]]
  /\ execute
  /\ ~PathExists(fs, NewName[listing[idx]])
  /\ fs' = RenameEntry(fs, listing[idx], NewName[listing[idx]])
  /\ log' = Append(log, <<"Renamed", listing[idx], NewName[listing[idx]]>>)
  /\ NextFile

\* the OSError handler ends the whole call
RenameFails_Aborts ==
  /\ AtFile
  /\ listing[idx] # NewName[listing[idx]]
  /\ execute
  /\ log' = Append(log, <<"An error occurred", listing[idx], <<>>>>)
  /\ batch_pc' = "done"
  /\ UNCHANGED <<argv, execute, root_exists, fs, fs0, listing, idx, normVars, episodeVars, scanVars, laterVars>>

\* exists() or rename() raises OSError (permission denied, ...): the
\* handler inside the loop prints it
RenameFails ==
  /\ AtFile
  /\ listing[idx] # NewName[listing[idx]]
  /\ execute
  /\ log' = Append(log, <<"Error renaming", listing[idx], <<>>>>)
  /\ UNCHANGED fs
  /\ NextFile

WouldRename ==
  /\ AtFile
  /\ listing[idx] # NewName[listing[idx]]
  /\ ~execute
  /\ log' = Append(log, <<"Would rename", listing[idx], NewName[listing[idx]]>>)
  /\ UNCHANGED fs
  /\ NextFile

FinishWalk ==
  /\ batch_pc = "walk"
  /\ idx > Len(listing)
  /\ batch_pc' = "done"
  /\ UNCHANGED <<argv, execute, root_exists, fs, fs0, listing, idx, log, normVars, episodeVars, scanVars, laterVars>>

NextBatch ==
  \/ Main
  \/ ReportMissingDirectory
  \/ Walk
  \/ SkipUnchanged
  \/ WarnTargetExists
  \/ Rename
  \/ RenameFails
  \/ WouldRename
  \/ FinishWalk

SpecBatch == InitBatch /\ [][NextBatch]_vars

-----------------------------------------------------------------------------
\* Vocabulary of the batch properties.

BatchDone == batch_pc = "done"

\* the name changes under normalization
NameChanges(name) == NewName[name] # name

\* the files of the walk met so far whose name changes, in walk order
ChangedSoFar == SelectSeq(SubSeq(listing, 1, idx - 1), NameChanges)

\* the messages printed for files, after the line that announces the mode
FileMessages == SubSeq(log, 2, Len(log))

\* C17. No overwrite, no loss: in execute mode a file is renamed only when
\* the target does not exist; after a run over any directory every entry
\* that was there before is still there, under exactly one name.
C17_NoFileLost ==
  batch_pc # "idle" =>
    \A n \in DOMAIN fs0 :
      Cardinality({m \in DOMAIN fs : fs[m] = fs0[n]}) = 1

\* C18. Dry run is the default and changes nothing: without --execute no
\* entry of the directory is renamed, created or removed, and when the run
\* ends the output names, for each file whose normalized name differs and
\* for no other, the rename that would happen.
C18_DryRunChangesNothing ==
  (batch_pc # "idle" /\ \A i \in 1..Len(argv) : argv[i] # "--execute") =>
    /\ fs = fs0
    /\ BatchDone /\ root_exists =>
         /\ Len(FileMessages) = Len(ChangedSoFar)
         /\ \A i \in 1..Len(ChangedSoFar) :
              FileMessages[i] = <<"Would rename", ChangedSoFar[i], NewName[ChangedSoFar[i]]>>
         /\ \A i \in 1..Len(listing) :
              NameChanges(listing[i]) => \E k \in 1..Len(FileMessages) :
                                            FileMessages[k][2] = listing[i]

\* a dry run over three files, two of them reported, all still in place
C18_Witness ==
  /\ BatchDone
  /\ argv = <<>>
  /\ Len(listing) = 3
  /\ Len(FileMessages) = 2
  /\ \A k \in 1..2 : FileMessages[k][1] = "Would rename"
  /\ fs = fs0

\* C19. A failure on one file does not end the batch: after a rename that
\* fails with OSError, or one skipped because the target exists, a message
\* is printed and the walk goes on; when it ends every file of the walk
\* has been met and every file whose name changes has its one message.
C19_FailureDoesNotAbort ==
  (batch_pc \in {"walk", "done"} /\ root_exists) =>
    /\ BatchDone => idx = Len(listing) + 1
    /\ Len(FileMessages) = Len(ChangedSoFar)
    /\ \A i \in 1..Len(ChangedSoFar) :
         /\ FileMessages[i][2] = ChangedSoFar[i]
         /\ FileMessages[i][1] \in {"Renamed", "Warning", "Error renaming", "Would rename"}

\* a failed rename, then a skipped one, then a rename that is done
C19_Witness ==
  /\ BatchDone
  /\ Len(FileMessages) = 3
  /\ FileMessages[1][1] = "Error renaming"
  /\ FileMessages[2][1] = "Warning"
  /\ FileMessages[3][1] = "Renamed"

-----------------------------------------------------------------------------
\* The metadata scan: VideoMetadataExtractor.scan_directory of
\* getmetadata.py, its probes running on the threads of a pool.

supported_extensions == { <<".", "m", "p", "4">>, <<".", "m", "k", "v">>, <<".", "a", "v", "i">>, <<".", "m", "o", "v">>, <<".", "w", "m", "v">>, <<".", "f", "l", "v">> }

EndsWith(s, suffix) ==
  /\ Len(suffix) <= Len(s)
  /\ SubSeq(s, Len(s) - Len(suffix) + 1, Len(s)) = suffix

\* any(file.lower().endswith(ext) for ext in extensions)
IsVideoFile(file) == \E ext \in supported_extensions : EndsWith(LowerStr(file), ext)

None == "None"

\* the dictionary get_video_metadata returns: what ffprobe says of the
\* file, which is the file's own, and scan_timestamp, the second it was read
Metadata(file, timestamp) == <<file, timestamp>>

\* the loop's test keeps the result of a failed probe as well
Collected_KeepsNone(list, metadata) == Append(list, metadata)

\* if metadata: metadata_list.append(metadata)
Collected(list, metadata) == IF metadata # None THEN Append(list, metadata) ELSE list

MaxScanFiles == 3
MaxWorkers == 2
MaxTicks == 1

\* the names a directory may hold, in the order os.walk gives them
ScanNames == << <<"a", ".", "m", "k", "v">>, <<"b", ".", "M", "P", "4">>, <<"c", ".", "a", "v", "i">>, <<"n", ".", "t", "x", "t">> >>

\* the files of a directory: any MaxScanFiles of the names
ScanDirectories ==
  { LET Held(name) == \E i \in held : ScanNames[i] = name
    IN SelectSeq(ScanNames, Held) :
      held \in {T \in SUBSET (1..Len(ScanNames)) : Cardinality(T) <= MaxScanFiles} }

InitScan ==
  /\ NormalizerIdle /\ EpisodeIdle /\ BatchIdle /\ LaterIdle("none")
  /\ scan_dir \in ScanDirectories
  /\ probe_ok \in SUBSET {scan_dir[i] : i \in 1..Len(scan_dir)}
  /\ max_workers \in 1..MaxWorkers
  /\ now = 0
  /\ video_files = <<>>
  /\ submitted = 0
  /\ queued = <<>>
  /\ running = {}
  /\ finished = {}
  /\ metadata_list = <<>>
  /\ first_result = Unset
  /\ scan_pc = "start"

\* the walk that gathers the files with a supported extension
CollectVideoFiles ==
  /\ scan_pc = "start"
  /\ video_files' = SelectSeq(scan_dir, IsVideoFile)
  /\ scan_pc' = "pool"
  /\ UNCHANGED <<scan_dir, probe_ok, max_workers, now, submitted, queued, running,
                 finished, metadata_list, first_result, normVars, episodeVars, batchVars, laterVars>>

\* executor.submit, one file after the other
Submit ==
  /\ scan_pc = "pool"
  /\ submitted < Len(video_files)
  /\ queued' = Append(queued, video_files[submitted + 1])
  /\ submitted' = submitted + 1
  /\ UNCHANGED <<scan_dir, probe_ok, max_workers, now, video_files, running, finished,
                 metadata_list, first_result, scan_pc, normVars, episodeVars, batchVars, laterVars>>

\* a free thread of the pool takes the oldest submitted call
WorkerStart ==
  /\ scan_pc = "pool"
  /\ queued # <<>>
  /\ Cardinality(running) < max_workers
  /\ running' = running \cup {Head(queued)}
  /\ queued' = Tail(queued)
  /\ UNCHANGED <<scan_dir, probe_ok, max_workers, now, video_files, submitted, finished,
                 metadata_list, first_result, scan_pc, normVars, episodeVars, batchVars, laterVars>>

\* get_video_metadata returns the dictionary
ProbeSucceeds ==
  /\ scan_pc = "pool"
  /\ \E file \in running :
       /\ file \in probe_ok
       /\ running' = running \ {file}
       /\ finished' = finished \cup {<<file, Metadata(file, now)>>}
  /\ UNCHANGED <<scan_dir, probe_ok, max_workers, now, video_files, submitted, queued,
                 metadata_list, first_result, scan_pc, normVars, episodeVars, batchVars, laterVars>>

\* get_video_metadata catches the exception, logs it and returns None
ProbeFails ==
  /\ scan_pc = "pool"
  /\ \E file \in running :
       /\ file \notin probe_ok
       /\ running' = running \ {file}
       /\ finished' = finished \cup {<<file, None>>}
  /\ UNCHANGED <<scan_dir, probe_ok, max_workers, now, video_files, submitted, queued,
                 metadata_list, first_result, scan_pc, normVars, episodeVars, batchVars, laterVars>>

\* as_completed yields a future that is done, whichever; its result is
\* appended when it is a dictionary
CollectResult ==
  /\ scan_pc = "pool"
  /\ submitted = Len(video_files)
  /\ \E future \in finished :
       /\ metadata_list' = Collected(metadata_list, future[2])
       /\ finished' = finished \ {future}
  /\ UNCHANGED <<scan_dir, probe_ok, max_workers, now, video_files, submitted, queued,
                 running, first_result, scan_pc, normVars, episodeVars, batchVars, laterVars>>

\* every future has been yielded: the pool shuts down, the list is returned
ReturnMetadata ==
  /\ scan_pc = "pool"
  /\ submitted = Len(video_files)
  /\ queued = <<>> /\ running = {} /\ finished = {}
  /\ scan_pc' = "returned"
  /\ UNCHANGED <<scan_dir, probe_ok, max_workers, now, video_files, submitted, queued,
                 running, finished, metadata_list, first_result, normVars, episodeVars,
                 batchVars, laterVars>>

\* the clock of datetime.now() passes to the next second while probes run
Tick ==
  /\ scan_pc = "pool"
  /\ now < MaxTicks
  /\ now' = now + 1
  /\ UNCHANGED <<scan_dir, probe_ok, max_workers, video_files, submitted, queued, running,
                 finished, metadata_list, first_result, scan_pc, normVars, episodeVars,
                 batchVars, laterVars>>

\* scan_directory is called once more, on the same directory
ScanAgain ==
  /\ scan_pc = "returned"
  /\ first_result = Unset
  /\ first_result' = metadata_list
  /\ video_files' = <<>>
  /\ submitted' = 0
  /\ metadata_list' = <<>>
  /\ scan_pc' = "start"
  /\ UNCHANGED <<scan_dir, probe_ok, max_workers, now, queued, running, finished,
                 normVars, episodeVars, batchVars, laterVars>>

NextScan ==
  \/ CollectVideoFiles
  \/ Submit
  \/ WorkerStart
  \/ ProbeSucceeds
  \/ ProbeFails
  \/ CollectResult
  \/ ReturnMetadata
  \/ Tick
  \/ ScanAgain

SpecScan == InitScan /\ [][NextScan]_vars

-----------------------------------------------------------------------------
\* Vocabulary of the scan properties.

Returned == scan_pc = "returned"

\* the files of the directory the scan is about
VideoFilesOf(dir) ==
  { dir[i] : i \in {k \in 1..Len(dir) :
                      \E ext \in supported_extensions : EndsWithIgnoreCase(dir[k], ext)} }

\* how many entries of a returned list are about a file
EntriesFor(list, file) == Cardinality({i \in 1..Len(list) : list[i][1] = file})

\* one entry for each file whose probe succeeds, none for another
OneEntryPerSuccess(list) ==
  /\ \A i \in 1..Len(list) : list[i] # None
  /\ \A i \in 1..Len(list) : list[i][1] \in VideoFilesOf(scan_dir)
  /\ \A file \in VideoFilesOf(scan_dir) :
       EntriesFor(list, file) = IF file \in probe_ok THEN 1 ELSE 0

\* a list as a multiset: how often each of its elements occurs
Multiset(list) ==
  [e \in {list[i] : i \in 1..Len(list)} |->
     Cardinality({i \in 1..Len(list) : list[i] = e})]

\* the entries without their scan_timestamp
WithoutTimestamp(list) == [i \in 1..Len(list) |-> list[i][1]]

\* C20 as claimed: one entry for each video file whose probe succeeded,
\* none for one whose probe failed, and the returned entries, as a
\* multiset, the same for every order in which the probes complete.
C20_SameMultisetForEveryOrder ==
  Returned =>
    /\ OneEntryPerSuccess(metadata_list)
    /\ first_result # Unset => Multiset(metadata_list) = Multiset(first_result)

\* C20. Order-independent aggregation: scan_directory returns exactly one
\* entry for each video file whose probe succeeded and none for a file
\* whose probe failed, a failing probe stopping no other; apart from
\* scan_timestamp, the second each probe ran, the returned entries, as a
\* multiset, are the same for every order in which the probes complete.
C20_OrderIndependentAggregation ==
  Returned =>
    /\ OneEntryPerSuccess(metadata_list)
    /\ first_result # Unset =>
         Multiset(WithoutTimestamp(metadata_list)) = Multiset(WithoutTimestamp(first_result))
    /\ \A i \in 1..Len(metadata_list) : metadata_list[i][2] \in 0..now

\* two scans of three video files, one probe failing, the two others
\* completing in one order in the first scan and in the other in the second
C20_Witness ==
  /\ Returned
  /\ first_result # Unset
  /\ Cardinality(VideoFilesOf(scan_dir)) = 3
  /\ Cardinality(VideoFilesOf(scan_dir) \ probe_ok) = 1
  /\ Len(metadata_list) = 2
  /\ WithoutTimestamp(metadata_list) # WithoutTimestamp(first_result)
  /\ Multiset(metadata_list) # Multiset(first_result)

-----------------------------------------------------------------------------
\* The title of a show or movie from its directory name: extract_title of
\* updatetitle.py.

\* chr(32) .. chr(126); chr(96) cannot be written in a string and has its name
PrintableAscii ==
  <<
     " ", "!", "\"", "#", "$", "%", "&", "'", "(", ")", "*", "+",
     ",", "-", ".", "/", "0", "1", "2", "3", "4", "5", "6", "7",
     "8", "9", ":", ";", "<", "=", ">", "?", "@", "A", "B", "C",
     "D", "E", "F", "G", "H", "I", "J", "K", "L", "M", "N", "O",
     "P", "Q", "R", "S", "T", "U", "V", "W", "X", "Y", "Z", "[",
     "\\", "]", "^", "_", "grave accent", "a", "b", "c", "d", "e", "f", "g",
     "h", "i", "j", "k", "l", "m", "n", "o", "p", "q", "r", "s",
     "t", "u", "v", "w", "x", "y", "z", "{", "|", "}", "~" >>

\* the character of a %XX escape: a printable ASCII character or the tab;
\* another byte (a control character, a byte of a longer UTF-8 sequence)
\* is written as the one mark below and is in no name the checks run on
PercentChar(h1, h2) ==
  LET hex == <<"0", "1", "2", "3", "4", "5", "6", "7", "8", "9", "a", "b", "c", "d", "e", "f">>
      Value(h) == (CHOOSE k \in 1..16 : hex[k] = Lower(h)) - 1
      byte == 16 * Value(h1) + Value(h2)
  IN IF byte \in 32..126 THEN PrintableAscii[byte - 31]
     ELSE IF byte = 9 THEN "\t"
     ELSE "<byte>"

IsHexDigit(c) == c \in Digits \/ \E k \in 1..6 : LowerChars[k] = Lower(c)

RECURSIVE unquote(_)
\* urllib.parse.unquote: every % followed by two hexadecimal digits is
\* decoded, once, from left to right; any other % is kept
unquote(s) ==
  IF s = <<>> THEN <<>>
  ELSE IF s[1] = "%" /\ Len(s) >= 3 /\ IsHexDigit(s[2]) /\ IsHexDigit(s[3])
  THEN <<PercentChar(s[2], s[3])>> \o unquote(SubSeq(s, 4, Len(s)))
  ELSE <<s[1]>> \o unquote(Tail(s))

\* \((\d{4})\) at position p of s
YearGroupAt(s, p) ==
  /\ p >= 1 /\ p + 5 <= Len(s)
  /\ s[p] = "(" /\ s[p + 5] = ")"
  /\ \A k \in (p + 1)..(p + 4) : s[k] \in Digits

RECURSIVE SubYearGroups_DropYear(_)
\* the group removed with its year
SubYearGroups_DropYear(s) ==
  IF s = <<>> THEN <<>>
  ELSE LET blanks == CHOOSE n \in 0..Len(s) :
                       /\ \A k \in 1..n : s[k] \in Whitespace
                       /\ (n = Len(s) \/ s[n + 1] \notin Whitespace)
       IN IF YearGroupAt(s, blanks + 1)
          THEN <<" ">> \o SubYearGroups_DropYear(SubSeq(s, blanks + 7, Len(s)))
          ELSE <<s[1]>> \o SubYearGroups_DropYear(Tail(s))

RECURSIVE SubYearGroups(_)
\* re.sub(r'\s*\((\d{4})\)', r' \1', s): from the left, the whitespace
\* before a group and the group become a blank and the group's digits
SubYearGroups(s) ==
  IF s = <<>> THEN <<>>
  ELSE LET blanks == CHOOSE n \in 0..Len(s) :
                       /\ \A k \in 1..n : s[k] \in Whitespace
                       /\ (n = Len(s) \/ s[n + 1] \notin Whitespace)
       IN IF YearGroupAt(s, blanks + 1)
          THEN <<" ">> \o SubSeq(s, blanks + 2, blanks + 5)
                 \o SubYearGroups(SubSeq(s, blanks + 7, Len(s)))
          ELSE <<s[1]>> \o SubYearGroups(Tail(s))

extract_title(name) == Strip(SubYearGroups(unquote(name)))

MaxTitleTokens == 3

RECURSIVE TitleStrings(_)
\* directory names: at most n pieces, escapes and year groups among them
TitleStrings(n) ==
  IF n = 0 THEN {<<>>}
  ELSE LET shorter == TitleStrings(n - 1)
           pieces == { <<"x">>, <<" ">>, <<"(">>, <<")">>, <<"2", "0", "2", "1">>, <<"(", "2", "0", "2", "1", ")">>,
                       <<"%", "2", "0">>, <<"%", "2", "8">>, <<"%", "2", "9">>, <<"%", "2", "5">>, <<"%">> }
       IN shorter \cup {s \o piece : s \in shorter, piece \in pieces}

DirectoryNames ==
  TitleStrings(MaxTitleTokens) \cup
    { <<"T", "h", "e", " ", "M", "o", "v", "i", "e", " ", "(", "2", "0", "2", "1", ")">>, <<"S", "h", "o", "w", "%", "2", "0", "N", "a", "m", "e", "%", "2", "0", "(", "2", "0", "1", "9", ")">>, <<"a", " ", " ", "(", "1", "9", "9", "9", ")", "(", "2", "0", "0", "0", ")", " ", "b">>,
      <<"%", "2", "5", "2", "8", "x", "%", "2", "5", "2", "9">>, <<"B", "l", "a", "d", "e", " ", "R", "u", "n", "n", "e", "r", " ", "\t", "(", "1", "9", "8", "2", ")", " ", "[", "4", "K", "]">>, <<"x", "%", "2", "F", "y", "%", "3", "a", "%", "7", "E", "%", "0", "9", "(", "1", "9", "9", "9", ")">>,
      <<"(", "1", "2", "3", "4", "5", ")", " ", "(", "1", "2", "3", ")", " ", "(", "(", "2", "0", "2", "1", ")", ")">> }

InitTitle ==
  /\ EarlierIdle /\ LaterIdle("title")
  /\ directory_name \in DirectoryNames
  /\ clean_title = Unset
  /\ title_again = Unset
  /\ title_pc = "start"

\* update_video_metadata's caller: title = extract_title(directory name)
ExtractTitle ==
  /\ title_pc = "start"
  /\ clean_title' = extract_title(directory_name)
  /\ title_pc' = "extracted"
  /\ UNCHANGED <<directory_name, title_again, earlierVars, updateVars, ddnsVars, renameVars,
                 organizeVars>>

\* a directory named as the title is, read on a later run
ExtractTitleAgain ==
  /\ title_pc = "extracted"
  /\ title_again' = extract_title(clean_title)
  /\ title_pc' = "extracted again"
  /\ UNCHANGED <<directory_name, clean_title, earlierVars, updateVars, ddnsVars, renameVars,
                 organizeVars>>

NextTitle == ExtractTitle \/ ExtractTitleAgain

SpecTitle == InitTitle /\ [][NextTitle]_vars

-----------------------------------------------------------------------------
\* Vocabulary of the title property.

\* what becomes of the character at q of the decoded name d
TitlePiece(d, q) ==
  IF YearGroupAt(d, q) THEN <<" ">>
  ELSE IF YearGroupAt(d, q - 5) THEN <<>>
  ELSE IF d[q] \in Whitespace
          /\ \E p \in (q + 1)..Len(d) :
               YearGroupAt(d, p) /\ \A k \in q..(p - 1) : d[k] \in Whitespace
       THEN <<>>
  ELSE <<d[q]>>

RECURSIVE TitlePieces(_, _)
\* the pieces of the characters q .. Len(d), one after the other
TitlePieces(d, q) ==
  IF q > Len(d) THEN <<>> ELSE TitlePiece(d, q) \o TitlePieces(d, q + 1)

HasYearGroup(s) == \E p \in 1..Len(s) : YearGroupAt(s, p)

\* C23. extract_title takes the parentheses from around a year and keeps
\* the year: in the URL-decoded name each "(YYYY)" of four digits, with the
\* whitespace before it, becomes one blank and YYYY, no other character
\* changes, the result is trimmed, and extract_title of a result that holds
\* no percent sign is that result.
C23_YearKeptParenthesesRemoved ==
  /\ title_pc \in {"extracted", "extracted again"} =>
       /\ clean_title = Strip(TitlePieces(unquote(directory_name), 1))
       /\ ~HasYearGroup(clean_title)
       /\ clean_title # <<>> =>
            clean_title[1] \notin Whitespace /\ clean_title[Len(clean_title)] \notin Whitespace
  /\ (title_pc = "extracted again" /\ \A k \in 1..Len(clean_title) : clean_title[k] # "%") =>
       title_again = clean_title

\* an escaped name with blanks and a tab before the year
C23_Witness ==
  /\ title_pc = "extracted again"
  /\ directory_name = <<"x", "%", "2", "F", "y", "%", "3", "a", "%", "7", "E", "%", "0", "9", "(", "1", "9", "9", "9", ")">>
  /\ clean_title = <<"x", "/", "y", ":", "~", " ", "1", "9", "9", "9">>
  /\ title_again = clean_title

-----------------------------------------------------------------------------
\* The title written into a video file: update_video_metadata of
\* updatetitle.py. ffmpeg writes a copy with the title to temp_<name>, which
\* then replaces the original.

InitUpdate ==
  /\ EarlierIdle /\ LaterIdle("update")
  /\ video_path \in { <<"x", ".", "m", "k", "v">>, <<"x", ".", "M", "P", "4">>, <<"a", " ", "b", ".", "m", "4", "v">>, <<"x">> }
  /\ new_title \in { <<"S", "h", "o", "w", " ", "S", "0", "1", "E", "0", "2">>, <<"a", " ", "2", "0", "2", "1">>, <<>> }
  /\ original = "original"
  \* what is at temp_<name> before the call: nothing, a file, a directory
  /\ temp_file \in {"absent", "file", "directory"}
  /\ returncode = Unset
  /\ update_result = Unset
  /\ update_pc = "start"

\* subprocess.run(cmd): ffmpeg writes the copy and exits 0, or exits non-zero
\* with part of a copy or none (an existing path in its way is left as it
\* is), or it cannot be started and subprocess.run raises
RunFfmpeg ==
  /\ update_pc = "start"
  /\ \/ /\ temp_file # "directory"
        /\ temp_file' = "copy with title"
        /\ returncode' = 0
        /\ update_pc' = "ran"
     \/ /\ temp_file' \in (IF temp_file = "absent" THEN {"absent", "partial copy"}
                          ELSE {temp_file})
        /\ returncode' = 1
        /\ update_pc' = "ran"
     \/ /\ update_pc' = "except"
        /\ UNCHANGED <<temp_file, returncode>>
  /\ UNCHANGED <<video_path, new_title, original, update_result, earlierVars, titleVars, ddnsVars, renameVars,
                 organizeVars>>

\* returncode == 0: os.replace(temp_file, file_path), which may raise OSError
ReplaceOriginal ==
  /\ update_pc = "ran"
  /\ returncode = 0
  /\ \/ /\ original' = temp_file
        /\ temp_file' = "absent"
        /\ update_result' = "True"
        /\ update_pc' = "returned"
     \/ /\ update_pc' = "except"
        /\ UNCHANGED <<original, temp_file, update_result>>
  /\ UNCHANGED <<video_path, new_title, returncode, earlierVars, titleVars, ddnsVars, renameVars,
                 organizeVars>>

\* returncode != 0: the temporary file is unlinked when it exists and False
\* is returned; unlink of a directory raises
RemoveTempAfterFailure ==
  /\ update_pc = "ran"
  /\ returncode # 0
  /\ IF temp_file = "directory"
     THEN update_pc' = "except" /\ UNCHANGED <<temp_file, update_result>>
     ELSE temp_file' = "absent" /\ update_result' = "False" /\ update_pc' = "returned"
  /\ UNCHANGED <<video_path, new_title, original, returncode, earlierVars, titleVars, ddnsVars, renameVars,
                 organizeVars>>

\* except Exception: the temporary file is unlinked when it exists and False
\* is returned; unlink of a directory raises, out of the function
HandleException ==
  /\ update_pc = "except"
  /\ IF temp_file = "directory"
     THEN update_result' = "raised" /\ update_pc' = "raised" /\ UNCHANGED temp_file
     ELSE temp_file' = "absent" /\ update_result' = "False" /\ update_pc' = "returned"
  /\ UNCHANGED <<video_path, new_title, original, returncode, earlierVars, titleVars, ddnsVars, renameVars,
                 organizeVars>>

NextUpdate == RunFfmpeg \/ ReplaceOriginal \/ RemoveTempAfterFailure \/ HandleException

SpecUpdate == InitUpdate /\ [][NextUpdate]_vars

-----------------------------------------------------------------------------
\* C25. update_video_metadata leaves the original intact on failure and
\* leaves no temporary file: when ffmpeg exits non-zero or an exception is
\* raised it returns False, the original is not replaced and temp_<name>
\* does not exist afterwards; it returns True only after the temporary
\* file has replaced the original.
C25_FailureLeavesOriginalNoTemp ==
  update_pc \in {"returned", "raised"} =>
    /\ update_result \in {"True", "False"}
    /\ update_result = "False" => original = "original" /\ temp_file = "absent"
    /\ update_result = "True" =>
         original = "copy with title" /\ temp_file = "absent" /\ returncode = 0

-----------------------------------------------------------------------------
\* Route53DDNS.run (route53ddns.py): the polling loop that upserts the
\* interface's address to the Route53 A record.

MaxCycles == 3

\* the addresses the interface takes
Addresses == {"192.0.2.1", "192.0.2.2"}

\* Route53DDNS(...) constructed and run() entered; nothing upserted yet
InitDdns ==
  /\ interface_ip \in Addresses \cup {None}
  /\ new_ip = Unset
  /\ current_ip = None
  /\ last_upserted = None
  /\ update_outcome = "none"
  /\ attempts = 0
  /\ cycles = 0
  /\ ddns_pc = "read"
  /\ EarlierIdle
  /\ LaterIdle("ddns")

\* new_ip = self.get_interface_ip(): the address, None, or an exception other
\* than ValueError, which leaves the loop body for the handler of run
ReadInterface ==
  /\ ddns_pc = "read"
  /\ \/ /\ new_ip' = interface_ip
        /\ ddns_pc' = IF interface_ip = None THEN "sleep" ELSE "compare"
     \/ /\ new_ip' = new_ip
        /\ ddns_pc' = "sleep"
  /\ UNCHANGED <<interface_ip, current_ip, last_upserted, update_outcome, attempts, cycles,
                 earlierVars, titleVars, updateVars, renameVars,
                 organizeVars>>

\* the comparison, with current_ip assigned whatever update_route53 returned
CompareAndUpdate_AssignsAlways ==
  /\ ddns_pc = "compare"
  /\ \/ /\ new_ip = current_ip
        /\ UNCHANGED <<current_ip, last_upserted, update_outcome, attempts>>
     \/ /\ new_ip # current_ip
        /\ attempts' = attempts + 1
        /\ current_ip' = new_ip
        /\ \/ /\ update_outcome' = "response"
              /\ last_upserted' = new_ip
           \/ /\ update_outcome' \in {"client error", "exception"}
              /\ UNCHANGED last_upserted
  /\ ddns_pc' = "sleep"
  /\ UNCHANGED <<interface_ip, new_ip, cycles, earlierVars, titleVars, updateVars, renameVars,
                 organizeVars>>

\* if new_ip != self.current_ip: if self.update_route53(new_ip): self.current_ip
\* = new_ip.  update_route53 returns the response, or None on a ClientError; any
\* other exception reaches the handler of run.
CompareAndUpdate ==
  /\ ddns_pc = "compare"
  /\ \/ /\ new_ip = current_ip
        /\ UNCHANGED <<current_ip, last_upserted, update_outcome, attempts>>
     \/ /\ new_ip # current_ip
        /\ attempts' = attempts + 1
        /\ \/ /\ update_outcome' = "response"
              /\ last_upserted' = new_ip
              /\ current_ip' = new_ip
           \/ /\ update_outcome' \in {"client error", "exception"}
              /\ UNCHANGED <<current_ip, last_upserted>>
  /\ ddns_pc' = "sleep"
  /\ UNCHANGED <<interface_ip, new_ip, cycles, earlierVars, titleVars, updateVars, renameVars,
                 organizeVars>>

\* time.sleep(check_interval), during which the interface may change address,
\* and the next turn of while True
Sleep ==
  /\ ddns_pc = "sleep"
  /\ cycles < MaxCycles
  /\ cycles' = cycles + 1
  /\ interface_ip' \in Addresses \cup {None}
  /\ update_outcome' = "none"
  /\ ddns_pc' = "read"
  /\ UNCHANGED <<new_ip, current_ip, last_upserted, attempts, earlierVars, titleVars,
                 updateVars, renameVars, organizeVars>>

NextDdns == ReadInterface \/ CompareAndUpdate \/ Sleep

SpecDdns == InitDdns /\ [][NextDdns]_vars

-----------------------------------------------------------------------------
\* Vocabulary of the polling property.

\* this step calls update_route53
UpdateAttempted == attempts' = attempts + 1

\* an address was read in this cycle and the comparison is reached
AddressRead == ddns_pc = "compare"

\* C26: current_ip is None or the address of the last successful upsert; a
\* cycle calls update_route53 exactly when it read an address that differs from
\* current_ip (a cycle that read none goes to sleep without a call); current_ip
\* changes only in a step whose upsert succeeded, and becomes that address, so
\* a failed update leaves it unchanged and the address still differs in the
\* next cycle.
C26_CurrentIpIsLastUpserted ==
  /\ [](ddns_pc # "idle" => (current_ip = None \/ current_ip = last_upserted))
  /\ [][ /\ UpdateAttempted <=> (AddressRead /\ new_ip # None /\ new_ip # current_ip)
         /\ current_ip' # current_ip =>
              /\ UpdateAttempted
              /\ update_outcome' = "response"
              /\ current_ip' = new_ip
         /\ (UpdateAttempted /\ update_outcome' # "response") =>
              /\ current_ip' = current_ip
              /\ last_upserted' = last_upserted ]_vars

\* two cycles read the same address; both called update_route53 and both failed
C26_Witness ==
  /\ ddns_pc = "sleep"
  /\ cycles = 1
  /\ attempts = 2
  /\ new_ip = "192.0.2.1"
  /\ current_ip = None
  /\ update_outcome = "client error"

-----------------------------------------------------------------------------
\* rename_files (video_rename/app.py): the endpoint that renames the files of
\* a request one after the other, each by an ffmpeg stream copy to the new
\* name, the removal of the original and update_csv_filename.

MaxEntries == 2

\* the resolved paths of one directory, and a new name that resolves elsewhere
RenamePaths == {"/v/a.mkv", "/v/b.mkv", "/v/c.mkv"}

Elsewhere == "/a.mkv"

Absent == "absent"

\* the entries of request.json['files']; one of them lacks newName
RenameEntries ==
  [file_path : RenamePaths, newName : RenamePaths \cup {Elsewhere}]
    \cup {[file_path |-> "/v/a.mkv"]}

\* a request arrives; what is at each path is named after the path
InitRename ==
  /\ rn_request \in UNION {[1..n -> RenameEntries] : n \in 1..MaxEntries}
  /\ rn_files \in [RenamePaths -> {Absent, "content"}]
  /\ rn_before = rn_files
  /\ csv_readable \in {"yes", "no"}
  /\ rn_idx = 1
  /\ rn_results = <<>>
  /\ rn_response = Unset
  /\ rn_pc = "entries"
  /\ EarlierIdle
  /\ LaterIdle("rename")

Failure(old, error) == [success |-> "False", oldPath |-> old, error |-> error]

\* one turn of for file in files
ProcessEntry ==
  /\ rn_pc = "entries"
  /\ rn_idx <= Len(rn_request)
  /\ rn_idx' = rn_idx + 1
  /\ rn_before' = rn_files
  /\ LET file == rn_request[rn_idx] IN
     IF ~({"file_path", "newName"} \subseteq DOMAIN file)
     THEN UNCHANGED <<rn_files, rn_results>>
     ELSE LET old_path == file.file_path
              new_path == file.newName
          IN IF new_path = Elsewhere
             THEN /\ rn_results' = Append(rn_results,
                        Failure(old_path, "Cannot move files between directories"))
                  /\ UNCHANGED rn_files
             ELSE IF rn_files[old_path] = Absent
             THEN /\ rn_results' = Append(rn_results, Failure(old_path, "File not found"))
                  /\ UNCHANGED rn_files
             ELSE IF rn_files[new_path] # Absent
             THEN /\ rn_results' = Append(rn_results,
                        Failure(old_path, "Destination file already exists"))
                  /\ UNCHANGED rn_files
             ELSE \* subprocess.run raises: ffmpeg cannot be started
                  \/ /\ rn_results' = Append(rn_results, Failure(old_path, "exception"))
                     /\ UNCHANGED rn_files
                  \* ffmpeg exits non-zero, with or without a partial output
                  \/ /\ rn_results' = Append(rn_results, Failure(old_path, "FFmpeg error"))
                     /\ rn_files' \in {rn_files, [rn_files EXCEPT ![new_path] = "partial"]}
                  \* ffmpeg wrote the copy, old_path.unlink() raises
                  \/ /\ rn_results' = Append(rn_results, Failure(old_path, "exception"))
                     /\ rn_files' = [rn_files EXCEPT ![new_path] = rn_files[old_path]]
                  \* the copy is written and the original removed; then
                  \* update_csv_filename returns, or raises what it caught
                  \/ /\ rn_files' = [rn_files EXCEPT ![new_path] = rn_files[old_path],
                                                     ![old_path] = Absent]
                     /\ rn_results' = Append(rn_results,
                          IF csv_readable = "yes"
                          THEN [success |-> "True", oldPath |-> old_path,
                                newPath |-> new_path]
                          ELSE Failure(old_path, "exception"))
  /\ UNCHANGED <<rn_request, csv_readable, rn_response, rn_pc, earlierVars, titleVars,
                 updateVars, ddnsVars, organizeVars>>

\* return jsonify({'success': any(r['success'] for r in results), ...})
Respond ==
  /\ rn_pc = "entries"
  /\ rn_idx > Len(rn_request)
  /\ rn_response' = IF \E i \in 1..Len(rn_results) : rn_results[i].success = "True"
                    THEN "True" ELSE "False"
  /\ rn_pc' = "responded"
  /\ UNCHANGED <<rn_request, rn_files, rn_before, csv_readable, rn_idx, rn_results,
                 earlierVars, titleVars, updateVars, ddnsVars, organizeVars>>

NextRename == ProcessEntry \/ Respond

SpecRename == InitRename /\ [][NextRename]_vars

-----------------------------------------------------------------------------
\* Vocabulary of the rename property.

\* the entry handled last has a result
EntryReported ==
  /\ rn_pc = "entries"
  /\ rn_idx > 1
  /\ {"file_path", "newName"} \subseteq DOMAIN rn_request[rn_idx - 1]
  /\ rn_results # <<>>

\* C27: when an entry's result is appended it matches the file system as the
\* entry left it: success false means that a source present before the entry
\* is still present under its old path; success true means that nothing is
\* under the old path and the source's content is under the new path.
C27_ResultMatchesFileSystem ==
  EntryReported =>
    LET result == rn_results[Len(rn_results)]
        old_path == rn_request[rn_idx - 1].file_path
        new_path == rn_request[rn_idx - 1].newName
    IN /\ result.success = "False" =>
            (rn_before[old_path] # Absent => rn_files[old_path] = rn_before[old_path])
       /\ result.success = "True" =>
            /\ rn_files[old_path] = Absent
            /\ rn_files[new_path] = rn_before[old_path]

-----------------------------------------------------------------------------
\* organize_mp3s (mp3_organizer.py): the planning pass that maps every file to
\* target_dir/artist/album/name, and the pass that carries the moves out.

MaxMp3Files == 3

\* the album replacements applied to every character; the characters outside
\* ASCII are written by name
RECURSIVE ReplaceAlbumChars(_)
ReplaceAlbumChars(s) ==
  IF s = <<>> THEN <<>>
  ELSE LET c == Head(s)
           replacement ==
             CASE c = ":" -> <<" ", "-">>
               [] c \in {"/", "\\"} -> <<"fraction slash">>
               [] c = "|" -> <<"dental click">>
               [] c = "*" -> <<"asterisk operator">>
               [] c = "?" -> <<"fullwidth question mark">>
               [] c = "<" -> <<"left angle quotation mark">>
               [] c = ">" -> <<"right angle quotation mark">>
               [] c = "NUL" -> <<>>
               [] OTHER -> <<c>>
       IN replacement \o ReplaceAlbumChars(Tail(s))

sanitize_path_component(name, is_artist) ==
  IF name = <<>> THEN <<"U", "n", "k", "n", "o", "w", "n">>
  ELSE LET replaced ==
             IF is_artist
             THEN [i \in 1..Len(name) |->
                     IF name[i] \in {"<", ">", ":", "|", "?", "*", "NUL"} THEN "_"
                     ELSE name[i]]
             ELSE ReplaceAlbumChars(name)
           result == LStripChars(RStripChars(replaced, {".", " "}), {".", " "})
       IN IF result = <<>> THEN <<"U", "n", "k", "n", "o", "w", "n">> ELSE result

\* the components pathlib makes of a string: empty ones and "." are dropped
RECURSIVE PathParts(_)
PathParts(s) ==
  IF s = <<>> THEN <<>>
  ELSE LET slashes == {i \in 1..Len(s) : s[i] = "/"}
           p == IF slashes = {} THEN Len(s) + 1
                ELSE CHOOSE i \in slashes : \A j \in slashes : i <= j
           part == SubSeq(s, 1, p - 1)
       IN (IF part \in {<<>>, <<".">>} THEN <<>> ELSE <<part>>)
            \o PathParts(SubSeq(s, p + 1, Len(s)))

\* base / s: a path is the sequence of its components; an absolute s replaces
\* base, and exactly two leading slashes are a root of their own
JoinPath(base, s) ==
  IF s # <<>> /\ s[1] = "/"
  THEN LET root == IF Len(s) >= 2 /\ s[2] = "/" /\ (Len(s) = 2 \/ s[3] # "/")
                   THEN <<"/", "/">> ELSE <<"/">>
       IN <<root>> \o PathParts(s)
  ELSE base \o PathParts(s)

\* album_dir / mp3_file.name of the planning pass, target_dir being "T"; a
\* missing tag is read as tags.get(key, [default])[0] reads it
TargetFile(mp3_file) ==
  LET tags == mp3_file.tags
      artist == sanitize_path_component(
                  IF "artist" \in DOMAIN tags THEN tags.artist ELSE <<"U", "n", "k", "n", "o", "w", "n", " ", "A", "r", "t", "i", "s", "t">>, TRUE)
      album == sanitize_path_component(
                 IF "album" \in DOMAIN tags THEN tags.album ELSE <<"U", "n", "k", "n", "o", "w", "n", " ", "A", "l", "b", "u", "m">>, FALSE)
  IN JoinPath(JoinPath(JoinPath(<< <<"T">> >>, artist), album), mp3_file.name)

\* EasyID3(mp3_file) returns the tags
Readable(mp3_file) == "tags" \in DOMAIN mp3_file

\* the files source_path.rglob("*.mp3") finds: tagged, without an artist tag,
\* and without readable tags.  The source of a file is its place in mp3_files.
Mp3Candidates ==
  {[name |-> <<"x", ".", "m", "p", "3">>, tags |-> [artist |-> a, album |-> b]] :
     a \in { <<"A">>, <<" ", "A", ".">>, <<"A", "?", "/", "/", "B">> }, b \in { <<"X", ":">>, <<".", " ">> }}
    \cup {[name |-> <<"x", ".", "m", "p", "3">>, tags |-> [album |-> <<"X", ":">>]],
          [name |-> <<"y", ".", "m", "p", "3">>, tags |-> [artist |-> <<"A">>, album |-> <<"X", ":">>]],
          [name |-> <<"x", ".", "m", "p", "3">>]}

\* target_file of every file whose tags can be read
TargetOf == [f \in {c \in Mp3Candidates : Readable(c)} |-> TargetFile(f)]

InitOrganize ==
  /\ mp3_files \in UNION {[1..n -> Mp3Candidates] : n \in 1..MaxMp3Files}
  /\ dry_run \in {"True", "False"}
  /\ plan_idx = 1
  /\ planned_moves = <<>>
  /\ potential_conflicts = <<>>
  /\ exec_idx = 1
  /\ created = {}
  /\ moved = <<>>
  /\ org_pc = "running"
  /\ EarlierIdle
  /\ LaterIdle("organize")

\* the planning pass with every move stored under a key of its own
PlanMove_NoConflictTest ==
  /\ org_pc = "running"
  /\ plan_idx <= Len(mp3_files)
  /\ plan_idx' = plan_idx + 1
  /\ IF Readable(mp3_files[plan_idx])
     THEN planned_moves' =
            Append(planned_moves, <<TargetOf[mp3_files[plan_idx]], plan_idx>>)
     ELSE UNCHANGED planned_moves
  /\ UNCHANGED <<mp3_files, dry_run, potential_conflicts, exec_idx, created, moved, org_pc,
                 earlierVars, titleVars, updateVars, ddnsVars, renameVars>>

\* one turn of the planning loop: planned_moves is the dictionary in insertion
\* order, an entry being <<target_file, source>>
PlanMove ==
  /\ org_pc = "running"
  /\ plan_idx <= Len(mp3_files)
  /\ plan_idx' = plan_idx + 1
  /\ IF ~Readable(mp3_files[plan_idx])
     THEN UNCHANGED <<planned_moves, potential_conflicts>>
     ELSE LET target_file == TargetOf[mp3_files[plan_idx]]
              same == {k \in 1..Len(planned_moves) : planned_moves[k][1] = target_file}
          IN IF same # {}
             THEN /\ potential_conflicts' =
                       Append(potential_conflicts, <<plan_idx, target_file>>)
                  /\ planned_moves' = [k \in 1..Len(planned_moves) |->
                       IF k \in same THEN <<target_file, plan_idx>> ELSE planned_moves[k]]
             ELSE /\ planned_moves' = Append(planned_moves, <<target_file, plan_idx>>)
                  /\ UNCHANGED potential_conflicts
  /\ UNCHANGED <<mp3_files, dry_run, exec_idx, created, moved, org_pc,
                 earlierVars, titleVars, updateVars, ddnsVars, renameVars>>

\* one turn of the second loop, which follows the planning loop: a dry run writes what it would do; otherwise
\* the tags are read again, album_dir is made and the file moved, and each of
\* the three can raise
ExecuteMove ==
  /\ org_pc = "running"
  /\ plan_idx > Len(mp3_files)
  /\ exec_idx <= Len(planned_moves)
  /\ exec_idx' = exec_idx + 1
  /\ LET target_file == planned_moves[exec_idx][1]
         source_file == planned_moves[exec_idx][2]
         album_dir == SubSeq(target_file, 1, Len(target_file) - 1)
     IN IF dry_run = "True"
        THEN UNCHANGED <<created, moved>>
        ELSE \/ UNCHANGED <<created, moved>>
             \/ /\ created' = created \cup {album_dir}
                /\ UNCHANGED moved
             \/ /\ created' = created \cup {album_dir}
                /\ moved' = Append(moved, <<source_file, target_file>>)
  /\ UNCHANGED <<mp3_files, dry_run, plan_idx, planned_moves, potential_conflicts, org_pc,
                 earlierVars, titleVars, updateVars, ddnsVars, renameVars>>

\* the conflicts and the summary are printed
Summarize ==
  /\ org_pc = "running"
  /\ plan_idx > Len(mp3_files)
  /\ exec_idx > Len(planned_moves)
  /\ org_pc' = "done"
  /\ UNCHANGED <<mp3_files, dry_run, plan_idx, planned_moves, potential_conflicts,
                 exec_idx, created, moved, earlierVars, titleVars, updateVars, ddnsVars,
                 renameVars>>

NextOrganize == PlanMove \/ ExecuteMove \/ Summarize

SpecOrganize == InitOrganize /\ [][NextOrganize]_vars

-----------------------------------------------------------------------------
\* Vocabulary of the planning property.

\* the files the planning loop has handled and whose tags it could read
Planned == {i \in 1..(plan_idx - 1) : Readable(mp3_files[i])}

\* file i maps to a target an earlier file was planned for
MapsToPlannedTarget(i) ==
  \E j \in Planned : j < i /\ TargetOf[mp3_files[j]] = TargetOf[mp3_files[i]]

ConflictSources == {potential_conflicts[k][1] : k \in 1..Len(potential_conflicts)}

\* C28: planned_moves holds one source per target and no target is moved to
\* twice; the files recorded in potential_conflicts, each once, are those that
\* map to a target planned before them, so planned moves and conflicts together
\* count the files whose tags were read; a dry run creates no directory and
\* moves no file.
C28_OneSourcePerTarget ==
  org_pc # "idle" =>
    /\ \A i, j \in 1..Len(planned_moves) :
         planned_moves[i][1] = planned_moves[j][1] => i = j
    /\ \A i, j \in 1..Len(moved) : moved[i][2] = moved[j][2] => i = j
    /\ \A i \in Planned : i \in ConflictSources <=> MapsToPlannedTarget(i)
    /\ Cardinality(ConflictSources) = Len(potential_conflicts)
    /\ Len(planned_moves) + Len(potential_conflicts) = Cardinality(Planned)
    /\ dry_run = "True" => created = {} /\ moved = <<>>

\* three files with the tags "A", " A." and "A" of one album and one name: one
\* planned move, two conflicts, and the last file is the one moved
C28_Witness ==
  /\ org_pc = "done"
  /\ dry_run = "False"
  /\ Len(mp3_files) = 3
  /\ mp3_files[2] = [name |-> <<"x", ".", "m", "p", "3">>, tags |-> [artist |-> <<" ", "A", ".">>, album |-> <<"X", ":">>]]
  /\ Len(planned_moves) = 1
  /\ Len(potential_conflicts) = 2
  /\ moved = << <<3, << <<"T">>, <<"A">>, <<"X", " ", "-">>, <<"x", ".", "m", "p", "3">> >> >> >>

====
